---- MODULE Spec2Model ----
(***************************************************************************)
(* Model of the TCR-HLA query engine of TCR2HLA:                           *)
(*   CLI_tools/query_database/query_API.py     (HLATCRDBInterface)         *)
(*   CLI_tools/impute_HLAs/gene_formating_converter.py (mapping builders)  *)
(*                                                                         *)
(* Strings that the code takes apart (allele keys, loci, CDR3 sequences)   *)
(* are sequences of one-character strings; gene names are only compared    *)
(* and looked up in a dict, so they are atomic strings.  A DataFrame is a  *)
(* sequence of rows; a result row keeps the index label (idx, 0-based as   *)
(* in pandas) of the row it was selected from.                             *)
(***************************************************************************)
EXTENDS Integers, Sequences, FiniteSets, TLC

VARIABLES database,      \* self._database: sequence of association records
          DATA_TYPE,     \* self._DATA_TYPE: "TRA" or "TRB"
          mapping_file,  \* <self._database_path>/adaptive_imgt_mapping.csv
          attributes,    \* the names of the instance attributes of self
          call,          \* the query a caller issues: operation and arguments
          ret,           \* what the query did: outcome, rows, steps taken
          history,       \* the table as loaded, the query as issued, the
                         \* queries answered before this one, and the
                         \* answer to the one just before when it was the
                         \* same query
          threads        \* the queries running concurrently on the engine:
                         \* for each thread its position in the method and
                         \* the locals of the method

vars ==
    <<database, DATA_TYPE, mapping_file, attributes, call, ret, history,
      threads>>

----------------------------------------------------------------------------
(* Bounds of the model.                                                    *)

MaxRows == 3          \* rows of a table in the allele-lookup specification
MaxKeyLen == 3        \* characters of an allele key passed to allele lookup
MaxMatchRows == 2     \* rows of a table in the matching specification
MaxQueryRows == 2     \* rows of a bulk query table
MaxCDR3Len == 2       \* characters of a CDR3 sequence
MaxMismatches == 1    \* largest num_mismatches passed to a match query
MaxMapRows == 3       \* rows of the reference mapping file
MaxCalls == 3         \* queries an engine answers in a session
MaxLoadRows == 1      \* rows of a database file read at construction
MaxThreads == 2       \* threads that query one engine concurrently

----------------------------------------------------------------------------
(* Generic helpers.                                                        *)

\* All sequences over S of length lo..hi.
SeqsOf(S, lo, hi) == UNION {[1..n -> S] : n \in lo..hi}

\* The selection that stops at the first position where the mask is True.
loc_first_match(mask) ==
    LET hits == SelectSeq([i \in 1..Len(mask) |-> i], LAMBDA i : mask[i])
    IN IF hits = <<>> THEN <<>> ELSE <<hits[1]>>

\* DataFrame.loc with a boolean mask: the positions where the mask is True,
\* in order.
loc(mask) == SelectSeq([i \in 1..Len(mask) |-> i], LAMBDA i : mask[i])

\* unique() without the removal of repeated values.
unique_keeps_repeats(col) == col

\* Series.unique(): the distinct values in order of first appearance.
RECURSIVE unique(_)
unique(col) ==
    IF col = <<>> THEN <<>>
    ELSE LET front == unique(SubSeq(col, 1, Len(col) - 1))
             last  == col[Len(col)]
         IN IF \E i \in 1..Len(front) : front[i] = last
            THEN front ELSE Append(front, last)

\* x in <array>
IsIn(x, arr) == \E i \in 1..Len(arr) : arr[i] = x

\* A column of a DataFrame.
Column(df, name) == [i \in 1..Len(df) |-> df[i][name]]

\* '-' in allele_name
HasDelimiter(s) == \E i \in 1..Len(s) : s[i] = "-"

\* split('-', 1): cut at the first delimiter only.
split_at_first(s) ==
    IF ~HasDelimiter(s) THEN <<s>>
    ELSE LET p == CHOOSE i \in 1..Len(s) :
                    s[i] = "-" /\ \A k \in 1..(i - 1) : s[k] # "-"
         IN <<SubSeq(s, 1, p - 1), SubSeq(s, p + 1, Len(s))>>

\* str.split('-'): the pieces between every occurrence of the delimiter.
RECURSIVE split(_)
split(s) ==
    IF ~HasDelimiter(s) THEN <<s>>
    ELSE LET p == CHOOSE i \in 1..Len(s) :
                    s[i] = "-" /\ \A k \in 1..(i - 1) : s[k] # "-"
         IN <<SubSeq(s, 1, p - 1)>> \o split(SubSeq(s, p + 1, Len(s)))

----------------------------------------------------------------------------
(* Outcomes of a call.                                                     *)

\* A raised exception: its Python class, the raise site, what the message
\* enumerates, and the steps the call took before raising.
Raise(exc, site, info, trace) ==
    [status |-> "error", exc |-> exc, site |-> site, info |-> info,
     rows |-> <<>>, trace |-> trace, work |-> <<>>, mapping |-> <<>>]

\* A returned DataFrame.
Return(rows, trace) ==
    [status |-> "ok", exc |-> "none", site |-> "none", info |-> <<>>,
     rows |-> rows, trace |-> trace, work |-> <<>>, mapping |-> <<>>]

\* No query answered yet.
NoRet  == [status |-> "none", exc |-> "none", site |-> "none", info |-> <<>>,
           rows |-> <<>>, trace |-> <<>>, work |-> <<>>, mapping |-> <<>>]

----------------------------------------------------------------------------
(* Allele lookup: HLATCRDBInterface.get_clonotypes_associated_to_alleles   *)

\* locus_data without the restriction to the locus.
locus_data_all_loci(db, loci_name) == db

\* self._database.loc[self._database.loci == loci_name]
locus_data(db, loci_name) ==
    LET pos == loc([i \in 1..Len(db) |-> db[i].loci = loci_name])
    IN [k \in 1..Len(pos) |-> db[pos[k]]]

\* allele_rows selecting on allele_name alone.
allele_rows_any_locus(db, loci_name, allele_name) ==
    LET pos == loc([i \in 1..Len(db) |-> db[i].allele_name = allele_name])
    IN [k \in 1..Len(pos) |->
          [idx |-> pos[k] - 1, loci |-> db[pos[k]].loci,
           allele_name |-> db[pos[k]].allele_name,
           v_gene |-> db[pos[k]].v_gene, j_gene |-> db[pos[k]].j_gene,
           CDR3 |-> db[pos[k]].CDR3]]

\* self._database.loc[(loci == loci_name) & (allele_name == allele_name)],
\* each row with its index label.
allele_rows(db, loci_name, allele_name) ==
    LET pos == loc([i \in 1..Len(db) |->
                       db[i].loci = loci_name
                       /\ db[i].allele_name = allele_name])
    IN [k \in 1..Len(pos) |->
          [idx |-> pos[k] - 1, loci |-> db[pos[k]].loci,
           allele_name |-> db[pos[k]].allele_name,
           v_gene |-> db[pos[k]].v_gene, j_gene |-> db[pos[k]].j_gene,
           CDR3 |-> db[pos[k]].CDR3]]

\* The whole method, as a function of the table and the argument.
allele_lookup(db, allele_name) ==
    IF ~HasDelimiter(allele_name)
    THEN Raise("ValueError", "format", <<>>, <<"format_check">>)
    ELSE
    LET parts == split(allele_name) IN
    IF Len(parts) # 2
    THEN Raise("ValueError", "unpack", <<>>, <<"format_check", "split">>)
    ELSE
    LET loci_name == parts[1]
        unique_loci_in_db == unique(Column(db, "loci"))
        t1 == <<"format_check", "split", "read_loci">>
    IN
    IF ~IsIn(loci_name, unique_loci_in_db)
    THEN Raise("ValueError", "locus", unique_loci_in_db, t1)
    ELSE
    LET ld == locus_data(db, loci_name)
        t2 == Append(t1, "read_locus_data")
    IN
    IF ld = <<>>
    THEN Raise("ValueError", "empty_locus", <<>>, t2)
    ELSE
    LET unique_alleles_in_locus == unique(Column(ld, "allele_name")) IN
    IF ~IsIn(allele_name, unique_alleles_in_locus)
    THEN Raise("ValueError", "allele", unique_alleles_in_locus, t2)
    ELSE Return(allele_rows(db, loci_name, allele_name),
                Append(t2, "select_rows"))

\* The characters an allele key is made of, and the keys callers pass.
KeyChars == {"A", "B", "-"}
AlleleKeys == SeqsOf(KeyChars, 0, MaxKeyLen)

AlleleCalls == [op : {"allele_lookup"}, allele_name : AlleleKeys]

get_clonotypes_associated_to_alleles ==
    /\ call.op = "allele_lookup"
    /\ ret' = allele_lookup(database, call.allele_name)
    /\ UNCHANGED <<threads, database, DATA_TYPE, mapping_file, attributes, call,
                   history>>

----------------------------------------------------------------------------
(* Gene-name mappings: gene_formating_converter.py                         *)

EmptyDict == [g \in {} |-> g]

\* {key: value for key, value in zip(...)}: a later pair with the same key
\* replaces an earlier one.
RECURSIVE dict_from_rows(_, _, _)
dict_from_rows(rows, key, value) ==
    IF rows = <<>> THEN EmptyDict
    ELSE LET last == rows[Len(rows)]
         IN (last[key] :> last[value])
              @@ dict_from_rows(SubSeq(rows, 1, Len(rows) - 1), key, value)

\* The species filter letting the rows of every species through.
human_rows_any_species(rows) == rows

\* input_map.loc[input_map['species'] == 'human', ]
human_rows(rows) == SelectSeq(rows, LAMBDA r : r.species = "human")

RequiredMapColumns == {"species", "imgt", "adaptive"}

BuildFailed(exc, site) ==
    [ok |-> FALSE, exc |-> exc, site |-> site, map |-> EmptyDict]
Built(map) == [ok |-> TRUE, exc |-> "none", site |-> "none", map |-> map]

\* The IMGT-to-Adaptive builder with the columns looked at before the file
\* is known to exist.
imgt_to_adaptive_builder_columns_first(file) ==
    IF ~(RequiredMapColumns \subseteq file.columns)
    THEN BuildFailed("KeyError", "mapping_columns")
    ELSE IF ~file.exists
    THEN BuildFailed("FileNotFoundError", "mapping_file")
    ELSE LET input_map == human_rows(file.rows)
         IN IF input_map = <<>> THEN Built(EmptyDict)
            ELSE Built(dict_from_rows(input_map, "imgt", "adaptive"))

\* imgt_to_adaptive_builder(path2database)
imgt_to_adaptive_builder(file) ==
    IF ~file.exists THEN BuildFailed("FileNotFoundError", "mapping_file")
    ELSE IF ~(RequiredMapColumns \subseteq file.columns)
    THEN BuildFailed("KeyError", "mapping_columns")
    ELSE LET input_map == human_rows(file.rows)
         IN IF input_map = <<>> THEN Built(EmptyDict)
            ELSE Built(dict_from_rows(input_map, "imgt", "adaptive"))

\* adaptive_to_imgt_builder without the species filter.
adaptive_to_imgt_builder_all_species(file) ==
    IF ~file.exists THEN BuildFailed("FileNotFoundError", "mapping_file")
    ELSE IF ~(RequiredMapColumns \subseteq file.columns)
    THEN BuildFailed("KeyError", "mapping_columns")
    ELSE IF file.rows = <<>> THEN Built(EmptyDict)
    ELSE Built(dict_from_rows(file.rows, "adaptive", "imgt"))

\* adaptive_to_imgt_builder(path2database)
adaptive_to_imgt_builder(file) ==
    IF ~file.exists THEN BuildFailed("FileNotFoundError", "mapping_file")
    ELSE IF ~(RequiredMapColumns \subseteq file.columns)
    THEN BuildFailed("KeyError", "mapping_columns")
    ELSE LET input_map == human_rows(file.rows)
         IN IF input_map = <<>> THEN Built(EmptyDict)
            ELSE Built(dict_from_rows(input_map, "adaptive", "imgt"))

----------------------------------------------------------------------------
(* The working table of a match query: query_API.py, lines 150-169 and     *)
(* 246-263.                                                                *)

\* The conversion tests with the chain ignored.
needs_adaptive_to_imgt_any_chain(data_type, format) == format = "IMGT"

\* self._DATA_TYPE == 'TRB' and format == 'IMGT'
needs_adaptive_to_imgt(data_type, format) ==
    data_type = "TRB" /\ format = "IMGT"

\* self._DATA_TYPE == 'TRA' and format == 'Adaptive'
needs_imgt_to_adaptive(data_type, format) ==
    data_type = "TRA" /\ format = "Adaptive"

\* The replacement applied to its own result once more.
replace_twice(g, map) ==
    LET once == IF g \in DOMAIN map THEN map[g] ELSE g
    IN IF once \in DOMAIN map THEN map[once] ELSE once

\* Series.replace(dict) on one value: a value that is a key is replaced by
\* what the key maps to; any other value is kept.
replace(g, map) == IF g \in DOMAIN map THEN map[g] ELSE g

\* work_database['v_gene'] = work_database['v_gene'].replace(map), and the
\* same for j_gene.
replace_genes(work, map) ==
    [i \in 1..Len(work) |->
        [work[i] EXCEPT !.v_gene = replace(@, map),
                        !.j_gene = replace(@, map)]]

\* The conversion block without its condition: the mapping is built and
\* applied whatever the chain and the format.
convert_step_unconditional(st, needed, built, step) ==
    IF ~st.ok THEN st
    ELSE IF ~built.ok
    THEN [st EXCEPT !.ok = FALSE, !.exc = built.exc, !.site = built.site,
                    !.trace = Append(@, step)]
    ELSE [st EXCEPT !.work = replace_genes(@, built.map),
                    !.mapping = built.map,
                    !.trace = @ \o <<step, "replace">>]

\* One conditional conversion block applied to a conversion state.
convert_step(st, needed, built, step) ==
    IF ~st.ok \/ ~needed THEN st
    ELSE IF ~built.ok
    THEN [st EXCEPT !.ok = FALSE, !.exc = built.exc, !.site = built.site,
                    !.trace = Append(@, step)]
    ELSE [st EXCEPT !.work = replace_genes(@, built.map),
                    !.mapping = built.map,
                    !.trace = @ \o <<step, "replace">>]

\* work_database = self._database.copy(deep=True), then the two conversion
\* blocks in the order of the code.
working_table(db, data_type, file, format) ==
    LET copied == [ok |-> TRUE, exc |-> "none", site |-> "none",
                   work |-> db, mapping |-> EmptyDict,
                   trace |-> <<"copy_table">>]
        after_trb == convert_step(copied,
                         needs_adaptive_to_imgt(data_type, format),
                         adaptive_to_imgt_builder(file),
                         "build_adaptive_to_imgt")
    IN convert_step(after_trb,
                    needs_imgt_to_adaptive(data_type, format),
                    imgt_to_adaptive_builder(file),
                    "build_imgt_to_adaptive")

\* The supported formats with the lower-case spelling let through.
Formats_any_case == {"Adaptive", "IMGT", "imgt"}

\* format not in ['Adaptive', 'IMGT']
Formats == {"Adaptive", "IMGT"}

\* The table with work_database bound to it instead of to a copy of it: the
\* assignments to the columns of work_database are assignments to the table.
table_behind_alias(db, work) == IF work = <<>> THEN db ELSE work

\* self._database once a match query has assigned the columns of
\* work_database: work_database is self._database.copy(deep=True), a table
\* of its own, and the assignments do not reach self._database.
table_behind_copy(db, work) == db

\* What a caller of a builder gets: the mapping, or the exception.
build_outcome(built, step) ==
    IF built.ok
    THEN [Return(<<>>, <<step>>) EXCEPT !.mapping = built.map]
    ELSE Raise(built.exc, built.site, <<>>, <<step>>)

\* A call of imgt_to_adaptive_builder on the engine's database directory.
build_imgt_to_adaptive ==
    /\ call.op = "imgt_to_adaptive_builder"
    /\ ret' = build_outcome(imgt_to_adaptive_builder(mapping_file),
                            "build_imgt_to_adaptive")
    /\ UNCHANGED <<threads, database, DATA_TYPE, mapping_file, attributes, call,
                   history>>

\* A call of adaptive_to_imgt_builder on the engine's database directory.
build_adaptive_to_imgt ==
    /\ call.op = "adaptive_to_imgt_builder"
    /\ ret' = build_outcome(adaptive_to_imgt_builder(mapping_file),
                            "build_adaptive_to_imgt")
    /\ UNCHANGED <<threads, database, DATA_TYPE, mapping_file, attributes, call,
                   history>>

----------------------------------------------------------------------------
(* Matching: Levenshtein.distance and the two match queries.               *)

Min2(a, b) == IF a <= b THEN a ELSE b

\* One row of the edit-distance table: the distances from the prefix of a
\* that ends in ch to every prefix of b, from the row before it.
RECURSIVE distance_row(_, _, _, _)
distance_row(prev, ch, b, row) ==
    IF Len(row) = Len(b) + 1 THEN row
    ELSE LET j == Len(row)
             deletion == prev[j + 1] + 1
             insertion == row[j] + 1
             substitution == prev[j] + (IF ch = b[j] THEN 0 ELSE 1)
         IN distance_row(prev, ch, b,
                Append(row, Min2(Min2(deletion, insertion), substitution)))

\* The rows of the table from the i-th character of a on; the last cell of
\* the last row is the distance.
RECURSIVE distance_rows(_, _, _, _)
distance_rows(a, b, i, prev) ==
    IF i > Len(a) THEN prev[Len(b) + 1]
    ELSE distance_rows(a, b, i + 1,
             distance_row(prev, a[i], b, <<prev[1] + 1>>))

\* The distance counted position by position: the positions at which the
\* two strings differ, and the characters one has more than the other.
Levenshtein_by_position(a, b) ==
    LET n == Min2(Len(a), Len(b))
    IN Cardinality({i \in 1..n : a[i] # b[i]}) + (Len(a) + Len(b) - 2 * n)

\* Levenshtein.distance(a, b): insertions, deletions and substitutions all
\* weigh one.
Levenshtein(a, b) == distance_rows(a, b, 1, [j \in 1..(Len(b) + 1) |-> j - 1])

\* The threshold test one mismatch too generous.
within_off_by_one(distance, num_mismatches) == distance <= num_mismatches + 1

\* candiate_table['distance'] <= num_mismatches
within(distance, num_mismatches) == distance <= num_mismatches

\* Lines 195-196 (and 303-308) on one candidate record: the distance between
\* its CDR3 and the query CDR3 is computed, and the record is kept when the
\* distance is within the threshold.
distance_and_filter(CDR3, CDR3_amino_acids, num_mismatches) ==
    LET candiate_table ==
            << [CDR3 |-> CDR3,
                distance |-> Levenshtein(CDR3, CDR3_amino_acids)] >>
        target_clonotypes ==
            SelectSeq(candiate_table,
                      LAMBDA r : within(r.distance, num_mismatches))
    IN [Return(target_clonotypes, <<"distance", "filter">>)
          EXCEPT !.work = candiate_table]

\* The distance and threshold steps of a match query on one record.
compare_CDR3 ==
    /\ call.op = "distance"
    /\ ret' = distance_and_filter(call.CDR3, call.CDR3_amino_acids,
                                  call.num_mismatches)
    /\ UNCHANGED <<threads, database, DATA_TYPE, mapping_file, attributes, call,
                   history>>

\* The candidate selection on the V gene alone.
candidates_v_only(work, v_gene, j_gene) ==
    loc([i \in 1..Len(work) |-> work[i].v_gene = v_gene])

\* work_database.loc[(v_gene == v_gene) & (j_gene == j_gene)]: the positions
\* of the candidate rows.
candidates(work, v_gene, j_gene) ==
    loc([i \in 1..Len(work) |->
            work[i].v_gene = v_gene /\ work[i].j_gene = j_gene])

\* The gene test always made against the v_gene column.
gene_defined_in_v_column(work, column, gene) ==
    IsIn(gene, unique(Column(work, "v_gene")))

\* gene in work_database.<column>.unique()
gene_defined(work, column, gene) ==
    IsIn(gene, unique(Column(work, column)))

\* Lines 171-202 with the gene checks made after the distances are
\* computed.
match_in_work_checks_late(work, v_gene, j_gene, format, CDR3_amino_acids, num_mismatches) ==
    LET pos == candidates(work, v_gene, j_gene)
        candiate_table ==
            [k \in 1..Len(pos) |->
                [idx |-> pos[k] - 1, loci |-> work[pos[k]].loci,
                 allele_name |-> work[pos[k]].allele_name,
                 v_gene |-> work[pos[k]].v_gene,
                 j_gene |-> work[pos[k]].j_gene,
                 CDR3 |-> work[pos[k]].CDR3,
                 distance |-> Levenshtein(work[pos[k]].CDR3,
                                          CDR3_amino_acids)]]
        target_clonotypes ==
            SelectSeq(candiate_table,
                      LAMBDA r : within(r.distance, num_mismatches))
    IN IF ~gene_defined(work, "v_gene", v_gene)
       THEN Raise("ValueError", "v_gene", <<"V-gene", v_gene, format>>,
                  <<"select_candidates", "distance", "filter",
                    "check_v_gene">>)
       ELSE IF ~gene_defined(work, "j_gene", j_gene)
       THEN Raise("ValueError", "j_gene", <<"J-gene", j_gene, format>>,
                  <<"select_candidates", "distance", "filter",
                    "check_v_gene", "check_j_gene">>)
       ELSE Return(target_clonotypes,
                   <<"select_candidates", "distance", "filter",
                     "check_v_gene", "check_j_gene">>)

\* Lines 171-202 of get_restricted_clonotypes_matching_a_clonotype, on the
\* working table.
match_in_work(work, v_gene, j_gene, format, CDR3_amino_acids, num_mismatches) ==
    IF ~gene_defined(work, "v_gene", v_gene)
    THEN Raise("ValueError", "v_gene", <<"V-gene", v_gene, format>>,
               <<"check_v_gene">>)
    ELSE IF ~gene_defined(work, "j_gene", j_gene)
    THEN Raise("ValueError", "j_gene", <<"J-gene", j_gene, format>>,
               <<"check_v_gene", "check_j_gene">>)
    ELSE
    LET pos == candidates(work, v_gene, j_gene)
        candiate_table ==
            [k \in 1..Len(pos) |->
                [idx |-> pos[k] - 1, loci |-> work[pos[k]].loci,
                 allele_name |-> work[pos[k]].allele_name,
                 v_gene |-> work[pos[k]].v_gene,
                 j_gene |-> work[pos[k]].j_gene,
                 CDR3 |-> work[pos[k]].CDR3,
                 distance |-> Levenshtein(work[pos[k]].CDR3,
                                          CDR3_amino_acids)]]
        target_clonotypes ==
            SelectSeq(candiate_table,
                      LAMBDA r : within(r.distance, num_mismatches))
    IN Return(target_clonotypes,
              <<"check_v_gene", "check_j_gene", "select_candidates",
                "distance", "filter">>)

\* A call's outcome with the steps, working table and mapping that went
\* before it.
After(prefix, st, r) ==
    [r EXCEPT !.trace = prefix \o st.trace \o @,
              !.work = st.work, !.mapping = st.mapping]

\* The single match with the threshold left at its default of one mismatch
\* whatever the caller passes.
single_match_default_threshold(db, data_type, file, v_gene, j_gene, format, CDR3_amino_acids, num_mismatches) ==
    IF format \notin Formats
    THEN Raise("ValueError", "convention", <<format>>, <<"format_check">>)
    ELSE
    LET st == working_table(db, data_type, file, format) IN
    IF ~st.ok
    THEN After(<<"format_check">>, st, Raise(st.exc, st.site, <<>>, <<>>))
    ELSE After(<<"format_check">>, st,
               match_in_work(st.work, v_gene, j_gene, format,
                             CDR3_amino_acids, 1))

\* get_restricted_clonotypes_matching_a_clonotype as a function of the
\* engine and the arguments.
single_match(db, data_type, file, v_gene, j_gene, format, CDR3_amino_acids, num_mismatches) ==
    IF format \notin Formats
    THEN Raise("ValueError", "convention", <<format>>, <<"format_check">>)
    ELSE
    LET st == working_table(db, data_type, file, format) IN
    IF ~st.ok
    THEN After(<<"format_check">>, st, Raise(st.exc, st.site, <<>>, <<>>))
    ELSE After(<<"format_check">>, st,
               match_in_work(st.work, v_gene, j_gene, format,
                             CDR3_amino_acids, num_mismatches))

get_restricted_clonotypes_matching_a_clonotype ==
    /\ call.op = "single_match"
    /\ ret' = single_match(database, DATA_TYPE, mapping_file, call.v_gene,
                           call.j_gene, call.format, call.CDR3_amino_acids,
                           call.num_mismatches)
    /\ database' = table_behind_copy(database, ret'.work)
    /\ UNCHANGED <<threads, DATA_TYPE, mapping_file, attributes, call, history>>

\* The cross merge with the query rows paired off against the table rows
\* instead of crossed with them.
cross_merge_paired(work, query_rows) ==
    LET n == Min2(Len(work), Len(query_rows))
    IN [p \in 1..n |->
          [idx |-> p - 1, loci |-> work[p].loci,
           allele_name |-> work[p].allele_name,
           DB_v_gene |-> work[p].v_gene, DB_j_gene |-> work[p].j_gene,
           DB_CDR3 |-> work[p].CDR3,
           QW_v_gene |-> query_rows[p].v_gene,
           QW_j_gene |-> query_rows[p].j_gene,
           QW_CDR3 |-> query_rows[p].CDR3]]

\* work_database_renamed.merge(query_clonotypes_renamed, how='cross'): every
\* table row with every query row, table-major, under a fresh 0-based index;
\* the matched columns of both sides carry their new names.
cross_merge(work, query_rows) ==
    LET m == Len(query_rows)
    IN [p \in 1..(Len(work) * m) |->
          LET i == ((p - 1) \div m) + 1
              q == ((p - 1) % m) + 1
          IN [idx |-> p - 1, loci |-> work[i].loci,
              allele_name |-> work[i].allele_name,
              DB_v_gene |-> work[i].v_gene, DB_j_gene |-> work[i].j_gene,
              DB_CDR3 |-> work[i].CDR3,
              QW_v_gene |-> query_rows[q].v_gene,
              QW_j_gene |-> query_rows[q].j_gene,
              QW_CDR3 |-> query_rows[q].CDR3]]

\* The gene filter on the V genes alone.
gene_filter_v_only(crossed) ==
    SelectSeq(crossed, LAMBDA r : r.DB_v_gene = r.QW_v_gene)

\* crossed_dataset.loc[(DB_v_gene == QW_v_gene) & (DB_j_gene == QW_j_gene)]
gene_filter(crossed) ==
    SelectSeq(crossed,
              LAMBDA r : r.DB_v_gene = r.QW_v_gene
                         /\ r.DB_j_gene = r.QW_j_gene)

\* The cross reference keeping the rows at the threshold and none below it.
cross_reference_at_threshold(work, query_rows, num_mismatches) ==
    LET gene_matched == gene_filter(cross_merge(work, query_rows))
        with_distance ==
            [k \in 1..Len(gene_matched) |->
                [c \in DOMAIN gene_matched[k] \cup {"distance"} |->
                    IF c = "distance"
                    THEN Levenshtein(gene_matched[k].DB_CDR3,
                                     gene_matched[k].QW_CDR3)
                    ELSE gene_matched[k][c]]]
    IN Return(SelectSeq(with_distance,
                        LAMBDA r : r.distance = num_mismatches),
              <<"cross_merge", "gene_filter">>
                \o (IF gene_matched = <<>> THEN <<"advisory">> ELSE <<>>)
                \o <<"distance", "filter">>)

\* Lines 265-316 of get_restricted_clonotypes_matching_clonotypes, on the
\* working table.
cross_reference(work, query_rows, num_mismatches) ==
    LET crossed == cross_merge(work, query_rows)
        gene_matched == gene_filter(crossed)
        with_distance ==
            [k \in 1..Len(gene_matched) |->
                [idx |-> gene_matched[k].idx,
                 loci |-> gene_matched[k].loci,
                 allele_name |-> gene_matched[k].allele_name,
                 DB_v_gene |-> gene_matched[k].DB_v_gene,
                 DB_j_gene |-> gene_matched[k].DB_j_gene,
                 DB_CDR3 |-> gene_matched[k].DB_CDR3,
                 QW_v_gene |-> gene_matched[k].QW_v_gene,
                 QW_j_gene |-> gene_matched[k].QW_j_gene,
                 QW_CDR3 |-> gene_matched[k].QW_CDR3,
                 distance |-> Levenshtein(gene_matched[k].DB_CDR3,
                                          gene_matched[k].QW_CDR3)]]
        target_clonotypes ==
            SelectSeq(with_distance,
                      LAMBDA r : within(r.distance, num_mismatches))
    IN Return(target_clonotypes,
              <<"cross_merge", "gene_filter">>
                \o (IF gene_matched = <<>> THEN <<"advisory">> ELSE <<>>)
                \o <<"distance", "filter">>)

RequiredQueryColumns == {"v_gene", "CDR3", "j_gene"}

\* The bulk match with the query columns checked after the working table is
\* made instead of before.
bulk_match_columns_checked_late(db, data_type, file, query_clonotypes, format, num_mismatches) ==
    IF format \notin Formats
    THEN Raise("ValueError", "convention", <<format>>, <<"format_check">>)
    ELSE
    LET st == working_table(db, data_type, file, format) IN
    IF ~st.ok
    THEN After(<<"format_check">>, st, Raise(st.exc, st.site, <<>>, <<>>))
    ELSE IF ~(RequiredQueryColumns \subseteq query_clonotypes.columns)
    THEN After(<<"format_check">>, st,
               Raise("ValueError", "query_columns", <<>>, <<"columns_check">>))
    ELSE After(<<"format_check">>, st,
               [cross_reference(st.work, query_clonotypes.rows, num_mismatches)
                  EXCEPT !.trace = <<"columns_check">> \o @])

\* get_restricted_clonotypes_matching_clonotypes as a function of the engine
\* and the arguments; query_clonotypes is a DataFrame, its columns and rows.
bulk_match(db, data_type, file, query_clonotypes, format, num_mismatches) ==
    IF format \notin Formats
    THEN Raise("ValueError", "convention", <<format>>, <<"format_check">>)
    ELSE IF ~(RequiredQueryColumns \subseteq query_clonotypes.columns)
    THEN Raise("ValueError", "query_columns", <<>>,
               <<"format_check", "columns_check">>)
    ELSE
    LET st == working_table(db, data_type, file, format)
        prefix == <<"format_check", "columns_check">>
    IN
    IF ~st.ok
    THEN After(prefix, st, Raise(st.exc, st.site, <<>>, <<>>))
    ELSE After(prefix, st,
               cross_reference(st.work, query_clonotypes.rows,
                               num_mismatches))

\* The caller's frame with its three columns renamed in place, once the
\* query has come to the cross merge.
query_behind_rename(query_clonotypes, trace) ==
    IF \A k \in 1..Len(trace) : trace[k] # "cross_merge"
    THEN query_clonotypes
    ELSE [columns |-> {"QW_v_gene", "QW_j_gene", "QW_CDR3"},
          rows |-> [q \in 1..Len(query_clonotypes.rows) |->
                      [QW_v_gene |-> query_clonotypes.rows[q].v_gene,
                       QW_j_gene |-> query_clonotypes.rows[q].j_gene,
                       QW_CDR3 |-> query_clonotypes.rows[q].CDR3]]]

\* The caller's frame once a bulk match has renamed the query columns:
\* query_clonotypes_renamed is the renaming of query_clonotypes.copy(deep=
\* True), a frame of its own, and the caller's frame keeps its columns.
query_behind_copy(query_clonotypes, trace) == query_clonotypes

get_restricted_clonotypes_matching_clonotypes ==
    /\ call.op = "bulk_match"
    /\ ret' = bulk_match(database, DATA_TYPE, mapping_file,
                         call.query_clonotypes, call.format,
                         call.num_mismatches)
    /\ database' = table_behind_copy(database, ret'.work)
    /\ call' = [call EXCEPT
                  !.query_clonotypes = query_behind_copy(@, ret'.trace)]
    /\ UNCHANGED <<threads, DATA_TYPE, mapping_file, attributes, history>>

----------------------------------------------------------------------------
(* Construction: HLATCRDBInterface.__init__                                *)

\* case 'TRB' / case 'TRA'
SupportedNames == {"TRB", "TRA"}

\* The required columns with CDR3 left out.
RequiredTableColumns_without_CDR3 ==
    {"loci", "allele_name", "v_gene", "j_gene"}

\* required_cols = ['loci', 'allele_name', 'v_gene', 'j_gene', 'CDR3']
RequiredTableColumns == {"loci", "allele_name", "v_gene", "j_gene", "CDR3"}

\* self as __init__ leaves it, and whether __init__ returned or raised.
Constructed(r, attrs, data_type, table) ==
    [ret |-> r, attributes |-> attrs, DATA_TYPE |-> data_type,
     database |-> table]

\* HLATCRDBInterface(database_dir, database_name): database_dir holds, for
\* each chain, the file <database_dir>/databases/<chain>_database.parquet.
\* The attributes are bound in the order of the code, so that a raise leaves
\* behind the ones bound before it; a raise hands no engine to the caller.
HLATCRDBInterface(database_dir, database_name) ==
    IF database_name \notin SupportedNames
    THEN Constructed(Raise("ValueError", "database_name", <<database_name>>,
                           <<"bind_path", "match_name">>),
                     {"_database_path"}, "unset", <<>>)
    ELSE
    LET file == database_dir[database_name]
        bound == {"_database_path", "_DATA_TYPE"}
    IN IF ~file.exists
       THEN Constructed(Raise("FileNotFoundError", "database_file", <<>>,
                              <<"bind_path", "match_name", "exists_check">>),
                        bound, database_name, <<>>)
       ELSE IF ~(RequiredTableColumns \subseteq file.columns)
       THEN Constructed(Raise("ValueError", "database_columns", <<>>,
                              <<"bind_path", "match_name", "exists_check",
                                "read_parquet", "columns_check">>),
                        bound \cup {"_database"}, database_name, file.rows)
       ELSE Constructed(Return(<<>>,
                               <<"bind_path", "match_name", "exists_check",
                                 "read_parquet", "columns_check",
                                 "loci_allele_check">>),
                        bound \cup {"_database"}, database_name, file.rows)

\* A caller constructs an engine.
construct ==
    /\ call.op = "construct"
    /\ LET made == HLATCRDBInterface(call.database_dir, call.database_name)
       IN /\ ret' = made.ret
          /\ attributes' = made.attributes
          /\ DATA_TYPE' = made.DATA_TYPE
          /\ database' = made.database
    /\ UNCHANGED <<threads, mapping_file, call, history>>

----------------------------------------------------------------------------
(* Tables and reference files the specifications start from.               *)

\* What __init__ binds on self.
InstanceAttributes == {"_database_path", "_DATA_TYPE", "_database"}

\* The history of an engine that has answered no query.
NoHistory(db, query) ==
    [loaded |-> db, issued |-> query, answered |-> <<>>, previous |-> NoRet]

Chains == {"TRA", "TRB"}

\* Records whose loci and allele_name vary; loci need not be the prefix of
\* allele_name, and an allele_name need not hold exactly one delimiter: the
\* loader checks column names only.
TableLoci == {<<"A">>, <<"B">>}
TableAlleles == {<<"A", "-", "A">>, <<"A", "-", "B">>, <<"B", "-", "A">>,
                 <<"A", "B">>}
AlleleRecords ==
    [loci : TableLoci, allele_name : TableAlleles,
     v_gene : {"aV"}, j_gene : {"aJ"}, CDR3 : {<<"C">>}]

HumanFile ==
    [exists |-> TRUE, columns |-> {"species", "imgt", "adaptive"},
     rows |-> << [species |-> "human", imgt |-> "iV", adaptive |-> "aV"],
                 [species |-> "human", imgt |-> "iJ", adaptive |-> "aJ"] >>]

InitAllele ==
    /\ database \in SeqsOf(AlleleRecords, 0, MaxRows)
    /\ DATA_TYPE \in Chains
    /\ mapping_file = HumanFile
    /\ call \in AlleleCalls
    /\ ret = NoRet
    /\ threads = <<>>
    /\ attributes = InstanceAttributes
    /\ history = NoHistory(database, call)

NextAllele == get_clonotypes_associated_to_alleles

SpecAllele == InitAllele /\ [][NextAllele]_vars

\* Records whose genes and CDR3 vary.  The names aV, aJ stand for Adaptive
\* names and iV, iJ for IMGT names; a record holds the V and the J gene of
\* one convention, a table may hold records of either.  The CDR3s of a table
\* are of full length and differ in their last residue.
AminoAcids == {"C", "A"}
AllC == [i \in 1..MaxCDR3Len |-> "C"]
TableCDR3s == {AllC, [AllC EXCEPT ![MaxCDR3Len] = "A"]}
TableGenes == {<<"aV", "aJ">>, <<"iV", "iJ">>}
MatchRecords ==
    {[loci |-> <<"A">>, allele_name |-> <<"A", "-", "A">>,
      v_gene |-> g[1], j_gene |-> g[2], CDR3 |-> c] :
        g \in TableGenes, c \in TableCDR3s}

\* A reference file in which a name is both an Adaptive and an IMGT name.
ChainedFile ==
    [exists |-> TRUE, columns |-> {"species", "imgt", "adaptive"},
     rows |-> << [species |-> "human", imgt |-> "iV", adaptive |-> "aV"],
                 [species |-> "human", imgt |-> "iJ", adaptive |-> "iV"] >>]

\* No reference file in the database directory.
MissingFile == [exists |-> FALSE, columns |-> {}, rows |-> <<>>]

MatchFiles == {HumanFile, ChainedFile, MissingFile}

\* The format strings callers pass: the two supported ones and another.
CallFormats == {"Adaptive", "IMGT", "imgt"}

SingleCalls ==
    [op : {"single_match"}, v_gene : {"aV", "iV"}, j_gene : {"aJ", "iJ"},
     format : CallFormats,
     CDR3_amino_acids : SeqsOf(AminoAcids, 1, MaxCDR3Len),
     num_mismatches : 0..MaxMismatches]

InitSingle ==
    /\ database \in SeqsOf(MatchRecords, 0, MaxMatchRows)
    /\ DATA_TYPE \in Chains
    /\ mapping_file \in MatchFiles
    /\ call \in SingleCalls
    /\ ret = NoRet
    /\ threads = <<>>
    /\ attributes = InstanceAttributes
    /\ history = NoHistory(database, call)

NextSingle == get_restricted_clonotypes_matching_a_clonotype

SpecSingle == InitSingle /\ [][NextSingle]_vars

\* Query tables: with the three required columns, or lacking one of them.
\* A query record holds the V and the J gene of one convention; the CDR3s
\* are of full length and differ in their first residue.
QueryCDR3s == {AllC, [AllC EXCEPT ![1] = "A"]}
QueryGenes == {<<"aV", "aJ">>, <<"iV", "iJ">>}
QueryRecords ==
    {[v_gene |-> g[1], j_gene |-> g[2], CDR3 |-> c] :
        g \in QueryGenes, c \in QueryCDR3s}
QueryTables ==
    [columns : {{"v_gene", "CDR3", "j_gene"}},
     rows : SeqsOf(QueryRecords, 0, MaxQueryRows)]
    \cup
    { [columns |-> {"CDR3", "j_gene"},
       rows |-> << [j_gene |-> "aJ", CDR3 |-> <<"C">>] >>],
      [columns |-> {"v_gene", "j_gene"},
       rows |-> << [v_gene |-> "aV", j_gene |-> "aJ"] >>],
      [columns |-> {"v_gene", "CDR3"},
       rows |-> << [v_gene |-> "aV", CDR3 |-> <<"C">>] >>] }

BulkCalls ==
    [op : {"bulk_match"}, query_clonotypes : QueryTables,
     format : CallFormats, num_mismatches : 0..MaxMismatches]

InitBulk ==
    /\ database \in SeqsOf(MatchRecords, 0, MaxMatchRows)
    /\ DATA_TYPE \in Chains
    /\ mapping_file \in MatchFiles
    /\ call \in BulkCalls
    /\ ret = NoRet
    /\ threads = <<>>
    /\ attributes = InstanceAttributes
    /\ history = NoHistory(database, call)

NextBulk == get_restricted_clonotypes_matching_clonotypes

SpecBulk == InitBulk /\ [][NextBulk]_vars

\* Bulk matches that pass the argument checks, on engines whose reference
\* file is complete: the queries whose result depends on the threshold.
ThresholdCalls ==
    {c \in BulkCalls :
        /\ c.format \in Formats
        /\ RequiredQueryColumns \subseteq c.query_clonotypes.columns}

InitThreshold ==
    /\ database \in SeqsOf(MatchRecords, 0, MaxMatchRows)
    /\ DATA_TYPE \in Chains
    /\ mapping_file = HumanFile
    /\ call \in ThresholdCalls
    /\ ret = NoRet
    /\ threads = <<>>
    /\ attributes = InstanceAttributes
    /\ history = NoHistory(database, call)

NextThreshold == get_restricted_clonotypes_matching_clonotypes

SpecThreshold == InitThreshold /\ [][NextThreshold]_vars

\* Both match queries.
InitMatch == InitSingle \/ InitBulk

NextMatch ==
    \/ get_restricted_clonotypes_matching_a_clonotype
    \/ get_restricted_clonotypes_matching_clonotypes

SpecMatch == InitMatch /\ [][NextMatch]_vars

\* Reference files of every content: rows of either species, names shared
\* between rows or not; a missing file; files without one of the columns.
MapRows ==
    [species : {"human", "mouse"}, imgt : {"iV", "iJ"},
     adaptive : {"aV", "aJ"}]
NoSpeciesFile ==
    [exists |-> TRUE, columns |-> {"imgt", "adaptive"},
     rows |-> << [imgt |-> "iV", adaptive |-> "aV"] >>]
NoImgtFile ==
    [exists |-> TRUE, columns |-> {"species", "adaptive"},
     rows |-> << [species |-> "human", adaptive |-> "aV"] >>]
NoAdaptiveFile ==
    [exists |-> TRUE, columns |-> {"species", "imgt"},
     rows |-> << [species |-> "human", imgt |-> "iV"] >>]
MapFiles ==
    [exists : {TRUE}, columns : {RequiredMapColumns},
     rows : SeqsOf(MapRows, 0, MaxMapRows)]
    \cup {MissingFile, NoSpeciesFile, NoImgtFile, NoAdaptiveFile}

BuilderCalls ==
    [op : {"imgt_to_adaptive_builder", "adaptive_to_imgt_builder"}]

InitMap ==
    /\ database \in SeqsOf(MatchRecords, 0, 1)
    /\ DATA_TYPE \in Chains
    /\ mapping_file \in MapFiles
    /\ call \in BuilderCalls
    /\ ret = NoRet
    /\ threads = <<>>
    /\ attributes = InstanceAttributes
    /\ history = NoHistory(database, call)

NextMap == build_imgt_to_adaptive \/ build_adaptive_to_imgt

SpecMap == InitMap /\ [][NextMap]_vars

\* Builders and converting match queries on complete reference files of
\* every content, those without a human row among them.
OrganismFiles ==
    [exists : {TRUE}, columns : {RequiredMapColumns},
     rows : SeqsOf(MapRows, 0, MaxMapRows - 1)]

OrganismCalls ==
    BuilderCalls
    \cup
    {c \in SingleCalls :
        /\ c.format \in Formats
        /\ <<c.v_gene, c.j_gene>> \in TableGenes
        /\ c.CDR3_amino_acids \in TableCDR3s}
    \cup
    {c \in BulkCalls :
        /\ c.format \in Formats
        /\ RequiredQueryColumns \subseteq c.query_clonotypes.columns
        /\ Len(c.query_clonotypes.rows) = 1}

InitOrganism ==
    /\ database \in SeqsOf(MatchRecords, 0, 1)
    /\ DATA_TYPE \in Chains
    /\ mapping_file \in OrganismFiles
    /\ call \in OrganismCalls
    /\ ret = NoRet
    /\ threads = <<>>
    /\ attributes = InstanceAttributes
    /\ history = NoHistory(database, call)

NextOrganism ==
    \/ build_imgt_to_adaptive
    \/ build_adaptive_to_imgt
    \/ get_restricted_clonotypes_matching_a_clonotype
    \/ get_restricted_clonotypes_matching_clonotypes

SpecOrganism == InitOrganism /\ [][NextOrganism]_vars

\* A session: an engine answers one query after another.  The tables hold
\* a record with Adaptive names, one with IMGT names, or both; the queries
\* are the allele lookups of a key that is in the table and of one that is
\* not, and the exact matches of one full-length CDR3 in every format.
SessionTables ==
    LET rec(g) == [loci |-> <<"A">>, allele_name |-> <<"A", "-", "A">>,
                   v_gene |-> g[1], j_gene |-> g[2], CDR3 |-> AllC]
    IN {<<rec(<<"aV", "aJ">>)>>, <<rec(<<"iV", "iJ">>)>>,
        <<rec(<<"aV", "aJ">>), rec(<<"iV", "iJ">>)>>}

SessionFiles == {HumanFile, MissingFile}

SessionCalls ==
    {c \in AlleleCalls :
        c.allele_name \in {<<"A", "-", "A">>, <<"B", "-", "A">>}}
    \cup
    {c \in SingleCalls :
        /\ <<c.v_gene, c.j_gene>> \in TableGenes
        /\ c.CDR3_amino_acids = AllC
        /\ c.num_mismatches = 0}
    \cup
    {c \in BulkCalls :
        /\ Len(c.query_clonotypes.rows) <= 1
        /\ \A q \in 1..Len(c.query_clonotypes.rows) :
             "CDR3" \in DOMAIN c.query_clonotypes.rows[q]
                => c.query_clonotypes.rows[q].CDR3 \in {AllC, <<"C">>}
        /\ c.num_mismatches = 0}

InitSession ==
    /\ database \in SessionTables
    /\ DATA_TYPE \in Chains
    /\ mapping_file \in SessionFiles
    /\ call \in SessionCalls
    /\ ret = NoRet
    /\ threads = <<>>
    /\ attributes = InstanceAttributes
    /\ history = NoHistory(database, call)

\* The directions of conversion, by the step that builds the mapping.
Directions == {"build_adaptive_to_imgt", "build_imgt_to_adaptive"}

\* How many times the steps of a query built the mapping of a direction: a
\* builder that returned is followed by the replacement of the columns.
builds(trace, dir) ==
    Cardinality({k \in 1..(Len(trace) - 1) :
                    trace[k] = dir /\ trace[k + 1] = "replace"})

\* What is kept of an answered query: the operation, whether it returned or
\* raised, whether its working table differed from the table as loaded, and
\* how many times it built the mapping of each direction.
Outcome ==
    [op |-> call.op, status |-> ret.status,
     rewritten |-> ret.work # <<>> /\ ret.work # history.loaded,
     builds |-> [dir \in Directions |-> builds(ret.trace, dir)]]

\* The caller, having got the answer to a query, calls the engine again.
\* When the new query is the query just answered, that answer is kept for
\* comparison.
issue_query ==
    /\ ret.status # "none"
    /\ Len(history.answered) + 1 < MaxCalls
    /\ call' \in SessionCalls
    /\ ret' = NoRet
    /\ history' = [history EXCEPT !.issued = call',
                                  !.answered = Append(@, Outcome),
                                  !.previous = IF call' = call THEN ret
                                               ELSE NoRet]
    /\ UNCHANGED <<threads, database, DATA_TYPE, mapping_file, attributes>>

NextSession ==
    \/ get_clonotypes_associated_to_alleles
    \/ get_restricted_clonotypes_matching_a_clonotype
    \/ get_restricted_clonotypes_matching_clonotypes
    \/ issue_query

SpecSession == InitSession /\ [][NextSession]_vars

\* Pairs of CDR3 strings of every length up to the bound, the empty string
\* included, and every threshold.
DistanceCalls ==
    [op : {"distance"}, CDR3 : SeqsOf(AminoAcids, 0, MaxCDR3Len),
     CDR3_amino_acids : SeqsOf(AminoAcids, 0, MaxCDR3Len),
     num_mismatches : 0..MaxMismatches]

InitDistance ==
    /\ database = <<>>
    /\ DATA_TYPE \in Chains
    /\ mapping_file = HumanFile
    /\ call \in DistanceCalls
    /\ ret = NoRet
    /\ threads = <<>>
    /\ attributes = InstanceAttributes
    /\ history = NoHistory(database, call)

NextDistance == compare_CDR3

SpecDistance == InitDistance /\ [][NextDistance]_vars

\* Construction from database directories of every content.  A cell of a
\* source file may be null: None in a column of names, <<None>> in a column
\* of character strings.  A file may lack any one of the required columns,
\* and either file of a directory may be missing.
None == "None"
SourceRecords ==
    [loci : {<<"A">>, <<None>>}, allele_name : {<<"A", "-", "A">>},
     v_gene : {"aV", None}, j_gene : {"aJ"}, CDR3 : {<<"C">>, <<None>>}]

\* The rows of a file that holds the given columns only.
WithColumns(rows, columns) ==
    [i \in 1..Len(rows) |-> [c \in columns |-> rows[i][c]]]

SourceColumns ==
    {RequiredTableColumns}
    \cup {RequiredTableColumns \ {c} : c \in RequiredTableColumns}

MissingSource == [exists |-> FALSE, columns |-> {}, rows |-> <<>>]

SourceFiles ==
    {[exists |-> TRUE, columns |-> cols, rows |-> WithColumns(rows, cols)] :
        cols \in SourceColumns, rows \in SeqsOf(SourceRecords, 0, MaxLoadRows)}
    \cup {MissingSource}

\* database_name as callers pass it: the two chains, and the name the
\* docstring gives for one of them.
DatabaseNames == {"TRB", "TRA", "TRB_DB"}

ConstructCalls ==
    [op : {"construct"}, database_dir : [SupportedNames -> SourceFiles],
     database_name : DatabaseNames]

InitLoad ==
    /\ database = <<>>
    /\ DATA_TYPE = "unset"
    /\ mapping_file = HumanFile
    /\ call \in ConstructCalls
    /\ ret = NoRet
    /\ threads = <<>>
    /\ attributes = {}
    /\ history = NoHistory(database, call)

NextLoad == construct

SpecLoad == InitLoad /\ [][NextLoad]_vars

\* Queries running concurrently on one engine.  Each thread runs one match
\* method; a step of a thread is one statement, or one run of statements
\* that touch only the locals of the method.  The locals are work (the
\* variable work_database), mapping (the dict the builder returned) and the
\* steps taken so far.
ThreadCalls ==
    {c \in SingleCalls :
        /\ <<c.v_gene, c.j_gene>> = <<"aV", "aJ">>
        /\ c.CDR3_amino_acids = AllC
        /\ c.num_mismatches = 0}
    \cup
    {c \in BulkCalls :
        /\ c.query_clonotypes.columns = RequiredQueryColumns
        /\ Len(c.query_clonotypes.rows) = 1
        /\ c.query_clonotypes.rows[1].v_gene = "iV"
        /\ c.query_clonotypes.rows[1].CDR3 = AllC
        /\ c.format \in Formats
        /\ c.num_mismatches = 0}

Threads == 1..MaxThreads

\* A thread that has called its method and run none of it.
Started(c) ==
    [pc |-> "checks", call |-> c, work |-> <<>>, mapping |-> EmptyDict,
     trace |-> <<>>, ret |-> NoRet]

\* The checks of the arguments at the head of a match method: the raise, or
\* the steps taken when the checks pass.
argument_checks(c) ==
    IF c.format \notin Formats
    THEN Raise("ValueError", "convention", <<c.format>>, <<"format_check">>)
    ELSE IF c.op = "bulk_match"
            /\ ~(RequiredQueryColumns \subseteq c.query_clonotypes.columns)
    THEN Raise("ValueError", "query_columns", <<>>,
               <<"format_check", "columns_check">>)
    ELSE [NoRet EXCEPT !.trace = IF c.op = "bulk_match"
                                 THEN <<"format_check", "columns_check">>
                                 ELSE <<"format_check">>]

\* The conversion block a query enters, by the step that builds its
\* mapping; "none" when the format is the table's own.
needed_direction(data_type, format) ==
    IF needs_adaptive_to_imgt(data_type, format)
    THEN "build_adaptive_to_imgt"
    ELSE IF needs_imgt_to_adaptive(data_type, format)
    THEN "build_imgt_to_adaptive"
    ELSE "none"

builder_of(dir, file) ==
    IF dir = "build_adaptive_to_imgt" THEN adaptive_to_imgt_builder(file)
    ELSE imgt_to_adaptive_builder(file)

\* The column assignment made on the engine's table itself: work_database
\* bound to self._database and not to a copy of it.
assign_column_on_table(db, work, map, column) ==
    LET replaced == [i \in 1..Len(work) |->
                        [work[i] EXCEPT ![column] = replace(@, map)]]
    IN [database |-> replaced, work |-> replaced]

\* work_database[column] = work_database[column].replace(mapping): the
\* thread's working table after the assignment, and the engine's table,
\* which the assignment does not reach.
assign_column(db, work, map, column) ==
    [database |-> db,
     work |-> [i \in 1..Len(work) |->
                  [work[i] EXCEPT ![column] = replace(@, map)]]]

\* The rest of the method once the working table is ready.
match_tail(c, work) ==
    IF c.op = "single_match"
    THEN match_in_work(work, c.v_gene, c.j_gene, c.format,
                       c.CDR3_amino_acids, c.num_mismatches)
    ELSE cross_reference(work, c.query_clonotypes.rows, c.num_mismatches)

\* The answer of a thread: the outcome with the thread's steps, working
\* table and mapping.
answer(th, r) ==
    [th EXCEPT !.pc = "done",
               !.ret = [r EXCEPT !.trace = th.trace \o @,
                                 !.work = th.work,
                                 !.mapping = th.mapping]]

\* The format check, and the column check of the bulk match.
thread_checks(t) ==
    /\ threads[t].pc = "checks"
    /\ LET checked == argument_checks(threads[t].call)
       IN threads' =
            [threads EXCEPT ![t] =
               IF checked.status = "error"
               THEN [@ EXCEPT !.pc = "done", !.ret = checked]
               ELSE [@ EXCEPT !.pc = "copy", !.trace = checked.trace]]
    /\ UNCHANGED <<database, DATA_TYPE, mapping_file, attributes, call, ret,
                   history>>

\* work_database = self._database.copy(deep=True)
thread_copy(t) ==
    /\ threads[t].pc = "copy"
    /\ threads' = [threads EXCEPT ![t] =
                     [@ EXCEPT !.pc = "build", !.work = database,
                               !.trace = Append(@, "copy_table")]]
    /\ UNCHANGED <<database, DATA_TYPE, mapping_file, attributes, call, ret,
                   history>>

\* The condition of the conversion block and the call of the builder.
thread_build(t) ==
    /\ threads[t].pc = "build"
    /\ LET dir == needed_direction(DATA_TYPE, threads[t].call.format)
           built == builder_of(dir, mapping_file)
       IN threads' =
            [threads EXCEPT ![t] =
               IF dir = "none" THEN [@ EXCEPT !.pc = "match"]
               ELSE IF ~built.ok
               THEN answer([@ EXCEPT !.trace = Append(@, dir)],
                           Raise(built.exc, built.site, <<>>, <<>>))
               ELSE [@ EXCEPT !.pc = "replace_v", !.mapping = built.map,
                              !.trace = Append(@, dir)]]
    /\ UNCHANGED <<database, DATA_TYPE, mapping_file, attributes, call, ret,
                   history>>

\* work_database['v_gene'] = work_database['v_gene'].replace(mapping)
thread_replace_v(t) ==
    /\ threads[t].pc = "replace_v"
    /\ LET assigned == assign_column(database, threads[t].work,
                                     threads[t].mapping, "v_gene")
       IN /\ threads' = [threads EXCEPT ![t] =
                           [@ EXCEPT !.pc = "replace_j",
                                     !.work = assigned.work]]
          /\ database' = assigned.database
    /\ UNCHANGED <<DATA_TYPE, mapping_file, attributes, call, ret, history>>

\* work_database['j_gene'] = work_database['j_gene'].replace(mapping)
thread_replace_j(t) ==
    /\ threads[t].pc = "replace_j"
    /\ LET assigned == assign_column(database, threads[t].work,
                                     threads[t].mapping, "j_gene")
       IN /\ threads' = [threads EXCEPT ![t] =
                           [@ EXCEPT !.pc = "match",
                                     !.work = assigned.work,
                                     !.trace = Append(@, "replace")]]
          /\ database' = assigned.database
    /\ UNCHANGED <<DATA_TYPE, mapping_file, attributes, call, ret, history>>

\* The gene checks, the candidates, the distances and the return.
thread_match(t) ==
    /\ threads[t].pc = "match"
    /\ threads' = [threads EXCEPT ![t] =
                     answer(@, match_tail(@.call, @.work))]
    /\ UNCHANGED <<database, DATA_TYPE, mapping_file, attributes, call, ret,
                   history>>

InitThreads ==
    /\ database \in SessionTables
    /\ DATA_TYPE \in Chains
    /\ mapping_file \in SessionFiles
    /\ call = [op |-> "threads"]
    /\ ret = NoRet
    /\ attributes = InstanceAttributes
    /\ history = NoHistory(database, call)
    /\ threads \in [Threads -> {Started(c) : c \in ThreadCalls}]

NextThreads ==
    \/ \E t \in DOMAIN threads : thread_checks(t)
    \/ \E t \in DOMAIN threads : thread_copy(t)
    \/ \E t \in DOMAIN threads : thread_build(t)
    \/ \E t \in DOMAIN threads : thread_replace_v(t)
    \/ \E t \in DOMAIN threads : thread_replace_j(t)
    \/ \E t \in DOMAIN threads : thread_match(t)

SpecThreads == InitThreads /\ [][NextThreads]_vars

\* Every engine and every call of the specifications above.
Init ==
    \/ InitAllele \/ InitMatch \/ InitThreshold \/ InitMap
    \/ InitOrganism \/ InitSession \/ InitDistance \/ InitLoad
    \/ InitThreads

Next ==
    \/ get_clonotypes_associated_to_alleles
    \/ get_restricted_clonotypes_matching_a_clonotype
    \/ get_restricted_clonotypes_matching_clonotypes
    \/ build_imgt_to_adaptive
    \/ build_adaptive_to_imgt
    \/ issue_query
    \/ compare_CDR3
    \/ construct
    \/ \E t \in DOMAIN threads : thread_checks(t)
    \/ \E t \in DOMAIN threads : thread_copy(t)
    \/ \E t \in DOMAIN threads : thread_build(t)
    \/ \E t \in DOMAIN threads : thread_replace_v(t)
    \/ \E t \in DOMAIN threads : thread_replace_j(t)
    \/ \E t \in DOMAIN threads : thread_match(t)

Spec == Init /\ [][Next]_vars

----------------------------------------------------------------------------
(* Vocabulary of the properties.                                           *)

\* The error categories of the specification, by raise site.
ErrorKind(r) ==
    CASE r.site \in {"format", "unpack", "convention"} -> "FormatError"
      [] r.site \in {"locus", "empty_locus", "allele", "v_gene", "j_gene",
                     "database_file"}                  -> "LookupError"
      [] r.site \in {"query_columns", "mapping_columns", "database_columns"}
                                                       -> "SchemaError"
      [] r.site \in {"mapping_file"} -> "ConfigurationError"
      [] OTHER -> "none"

\* The query of the given operation has been answered.
Answered(op) == call.op = op /\ ret.status # "none"

\* The elements of a sequence, and whether it lists each of them once.
Elems(s) == {s[i] : i \in 1..Len(s)}
NoRepeats(s) == \A i, k \in 1..Len(s) : s[i] = s[k] => i = k

\* A key made of a locus and an allele name around a single delimiter.
DelimiterPositions(key) == {i \in 1..Len(key) : key[i] = "-"}
WellFormedKey(key) == Cardinality(DelimiterPositions(key)) = 1
LocusOf(key) ==
    SubSeq(key, 1, (CHOOSE p \in DelimiterPositions(key) : TRUE) - 1)

DistinctLoci == {database[i].loci : i \in 1..Len(database)}
AllelesIn(locus) ==
    {database[i].allele_name :
        i \in {n \in 1..Len(database) : database[n].loci = locus}}
RowsMatching(locus, key) ==
    {i \in 1..Len(database) :
        database[i].loci = locus /\ database[i].allele_name = key}

RecordColumns == {"loci", "allele_name", "v_gene", "j_gene", "CDR3"}

\* The steps of a call that read the table.
TableSteps == {"read_loci", "read_locus_data", "select_rows", "copy_table"}

----------------------------------------------------------------------------
(* Properties of allele lookup.                                            *)

\* C1: allele lookup on a key whose (locus, key) pair is on some record of
\* the table returns exactly the records with that loci and that
\* allele_name, in table order, each once, with the five table columns
\* unchanged and no other column.
C1_AlleleLookupExact ==
    (/\ Answered("allele_lookup")
     /\ WellFormedKey(call.allele_name)
     /\ RowsMatching(LocusOf(call.allele_name), call.allele_name) # {})
    =>
    /\ ret.status = "ok"
    /\ {ret.rows[k].idx + 1 : k \in 1..Len(ret.rows)}
         = RowsMatching(LocusOf(call.allele_name), call.allele_name)
    /\ \A k \in 1..Len(ret.rows) :
         /\ DOMAIN ret.rows[k] = RecordColumns \cup {"idx"}
         /\ \A c \in RecordColumns :
              ret.rows[k][c] = database[ret.rows[k].idx + 1][c]
    /\ \A k \in 1..(Len(ret.rows) - 1) : ret.rows[k].idx < ret.rows[k + 1].idx

\* A lookup that returned two of three records, the third sharing the
\* allele_name of the key but not its locus.
C1_Witness ==
    /\ Answered("allele_lookup")
    /\ ret.status = "ok"
    /\ Len(ret.rows) = 2
    /\ \E i \in 1..Len(database) :
         /\ database[i].allele_name = call.allele_name
         /\ database[i].loci # LocusOf(call.allele_name)

\* C7: allele lookup on a well-formed key whose locus part is on no record
\* fails with a LookupError that lists the distinct loci of the table, each
\* once, and returns no rows.
C7_AbsentLocus ==
    (/\ Answered("allele_lookup")
     /\ WellFormedKey(call.allele_name)
     /\ LocusOf(call.allele_name) \notin DistinctLoci)
    =>
    /\ ret.status = "error"
    /\ ret.site = "locus"
    /\ ErrorKind(ret) = "LookupError"
    /\ Elems(ret.info) = DistinctLoci
    /\ NoRepeats(ret.info)
    /\ ret.rows = <<>>

\* An absent locus reported against a table of three records and two loci.
C7_Witness ==
    /\ Answered("allele_lookup")
    /\ ret.site = "locus"
    /\ Len(database) = 3
    /\ Len(ret.info) = 2

\* C8: allele lookup on a well-formed key whose locus is in the table but
\* whose full key is not an allele_name of that locus fails with a
\* LookupError that lists the allele names of that locus and of no other,
\* each once; the loci are read before the alleles of the locus.
C8_AbsentAllele ==
    (/\ Answered("allele_lookup")
     /\ WellFormedKey(call.allele_name)
     /\ LocusOf(call.allele_name) \in DistinctLoci
     /\ call.allele_name \notin AllelesIn(LocusOf(call.allele_name)))
    =>
    /\ ret.status = "error"
    /\ ret.site = "allele"
    /\ ErrorKind(ret) = "LookupError"
    /\ Elems(ret.info) = AllelesIn(LocusOf(call.allele_name))
    /\ NoRepeats(ret.info)
    /\ ret.rows = <<>>
    /\ \E i, k \in 1..Len(ret.trace) :
         i < k /\ ret.trace[i] = "read_loci"
               /\ ret.trace[k] = "read_locus_data"

\* An absent allele reported while another locus holds an allele name that
\* the listed locus does not.
C8_Witness ==
    /\ Answered("allele_lookup")
    /\ ret.site = "allele"
    /\ \E i \in 1..Len(database) :
         /\ database[i].loci # LocusOf(call.allele_name)
         /\ database[i].allele_name \notin Elems(ret.info)

----------------------------------------------------------------------------
(* Properties of the match queries.                                        *)

\* The arguments of the answered match query passed the checks made on
\* them, and no mapping build failed.
ConventionValid == call.format \in {"Adaptive", "IMGT"}
QueryColumnsPresent ==
    {"v_gene", "j_gene", "CDR3"} \subseteq call.query_clonotypes.columns
ArgumentsValid ==
    \/ Answered("single_match") /\ ConventionValid
    \/ Answered("bulk_match") /\ ConventionValid /\ QueryColumnsPresent
NoBuildFailed == ret.site \notin {"mapping_file", "mapping_columns"}

\* The gene names on the working table of the answered query.
WorkGenes(column) == {ret.work[i][column] : i \in 1..Len(ret.work)}

\* Result rows listed by strictly increasing index label.
IndexIncreasing(rows) ==
    \A k \in 1..(Len(rows) - 1) : rows[k].idx < rows[k + 1].idx

\* C2: every row returned by a single or a bulk match carries a distance
\* that is at most the requested number of mismatches, and that distance is
\* the distance between the row's CDR3 and the query CDR3.
C2_DistanceWithinThreshold ==
    /\ Answered("single_match") =>
         \A k \in 1..Len(ret.rows) :
            /\ ret.rows[k].distance <= call.num_mismatches
            /\ ret.rows[k].distance
                 = Levenshtein(ret.rows[k].CDR3, call.CDR3_amino_acids)
    /\ Answered("bulk_match") =>
         \A k \in 1..Len(ret.rows) :
            /\ ret.rows[k].distance <= call.num_mismatches
            /\ ret.rows[k].distance
                 = Levenshtein(ret.rows[k].DB_CDR3, ret.rows[k].QW_CDR3)

\* A match that returned a row at the threshold and left out a gene-matched
\* record beyond it.
C2_Witness ==
    /\ Answered("single_match")
    /\ ret.status = "ok"
    /\ \E k \in 1..Len(ret.rows) : ret.rows[k].distance = call.num_mismatches
    /\ \E i \in 1..Len(ret.work) :
         /\ ret.work[i].v_gene = call.v_gene
         /\ ret.work[i].j_gene = call.j_gene
         /\ Levenshtein(ret.work[i].CDR3, call.CDR3_amino_acids)
              > call.num_mismatches

\* The working-table positions a single match has to return.
SingleQualifying ==
    {i \in 1..Len(ret.work) :
        /\ ret.work[i].v_gene = call.v_gene
        /\ ret.work[i].j_gene = call.j_gene
        /\ Levenshtein(ret.work[i].CDR3, call.CDR3_amino_acids)
             <= call.num_mismatches}

\* C3: a single match whose format is supported and whose V and J gene are
\* each on some record of the working table succeeds, and returns exactly
\* the working-table records with that V gene, that J gene and a CDR3 within
\* the threshold, in table order, each with its fields and its distance;
\* when no record qualifies the result is empty and no error is raised.
C3_SingleMatchExact ==
    (/\ Answered("single_match")
     /\ ConventionValid
     /\ NoBuildFailed
     /\ call.v_gene \in WorkGenes("v_gene")
     /\ call.j_gene \in WorkGenes("j_gene"))
    =>
    /\ ret.status = "ok"
    /\ {ret.rows[k].idx + 1 : k \in 1..Len(ret.rows)} = SingleQualifying
    /\ IndexIncreasing(ret.rows)
    /\ \A k \in 1..Len(ret.rows) :
         /\ DOMAIN ret.rows[k] = RecordColumns \cup {"idx", "distance"}
         /\ \A c \in RecordColumns :
              ret.rows[k][c] = ret.work[ret.rows[k].idx + 1][c]
         /\ ret.rows[k].distance
              = Levenshtein(ret.work[ret.rows[k].idx + 1].CDR3,
                            call.CDR3_amino_acids)

\* A single match in which the V gene and the J gene are both in the table
\* but on different records: an empty result, no error.
C3_Witness ==
    /\ Answered("single_match")
    /\ ret.status = "ok"
    /\ ret.rows = <<>>
    /\ call.v_gene \in WorkGenes("v_gene")
    /\ call.j_gene \in WorkGenes("j_gene")
    /\ \A i \in 1..Len(ret.work) :
         ret.work[i].v_gene # call.v_gene \/ ret.work[i].j_gene # call.j_gene

\* A single match returning one of two records that carry the query genes.
C3_WitnessRows ==
    /\ Answered("single_match")
    /\ Len(ret.rows) = 1
    /\ ret.rows[1].idx = 1
    /\ ret.rows[1].distance = 1
    /\ Cardinality({i \in 1..Len(ret.work) :
                        /\ ret.work[i].v_gene = call.v_gene
                        /\ ret.work[i].j_gene = call.j_gene}) = 2

\* The pairs (table position, query position) a bulk match has to return.
BulkQualifying ==
    {p \in (1..Len(ret.work)) \X (1..Len(call.query_clonotypes.rows)) :
        LET r == ret.work[p[1]]
            q == call.query_clonotypes.rows[p[2]]
        IN /\ r.v_gene = q.v_gene
           /\ r.j_gene = q.j_gene
           /\ Levenshtein(r.CDR3, q.CDR3) <= call.num_mismatches}

\* The pair a row of the cross product stands for, from its index label.
PairOf(idx) ==
    LET m == Len(call.query_clonotypes.rows)
    IN <<(idx \div m) + 1, (idx % m) + 1>>

BulkColumns ==
    {"idx", "loci", "allele_name", "DB_v_gene", "DB_j_gene", "DB_CDR3",
     "QW_v_gene", "QW_j_gene", "QW_CDR3", "distance"}

\* C4: a bulk match with valid arguments returns one row for each pair of a
\* working-table record and a query record that agree on V gene and J gene
\* and whose CDR3s are within the threshold, and no other row; the rows are
\* in table-major order and each carries the record's fields, the query
\* record's fields and the distance.  Equal query records give equal rows.
C4_BulkMatchExact ==
    (/\ Answered("bulk_match")
     /\ ConventionValid
     /\ QueryColumnsPresent
     /\ NoBuildFailed)
    =>
    /\ ret.status = "ok"
    /\ {PairOf(ret.rows[k].idx) : k \in 1..Len(ret.rows)} = BulkQualifying
    /\ IndexIncreasing(ret.rows)
    /\ \A k \in 1..Len(ret.rows) :
         LET row == ret.rows[k]
             r == ret.work[PairOf(row.idx)[1]]
             q == call.query_clonotypes.rows[PairOf(row.idx)[2]]
         IN /\ DOMAIN row = BulkColumns
            /\ row.loci = r.loci
            /\ row.allele_name = r.allele_name
            /\ row.DB_v_gene = r.v_gene
            /\ row.DB_j_gene = r.j_gene
            /\ row.DB_CDR3 = r.CDR3
            /\ row.QW_v_gene = q.v_gene
            /\ row.QW_j_gene = q.j_gene
            /\ row.QW_CDR3 = q.CDR3
            /\ row.distance = Levenshtein(r.CDR3, q.CDR3)

\* A bulk match of two equal query records against two records, of which
\* one matches: two rows that differ in their index label only.
C4_Witness ==
    /\ Answered("bulk_match")
    /\ Len(ret.work) = 2
    /\ Len(call.query_clonotypes.rows) = 2
    /\ call.query_clonotypes.rows[1] = call.query_clonotypes.rows[2]
    /\ Len(ret.rows) = 2
    /\ ret.rows[1].idx = 2
    /\ ret.rows[2] = [ret.rows[1] EXCEPT !.idx = 3]

\* The mapping m sends each name found in column from, on a human row of
\* the reference file, to a name found next to it in column to.
MapsColumn(m, from, to) ==
    LET human == {i \in 1..Len(mapping_file.rows) :
                     mapping_file.rows[i].species = "human"}
    IN /\ DOMAIN m = {mapping_file.rows[i][from] : i \in human}
       /\ \A g \in DOMAIN m :
            \E i \in human : /\ mapping_file.rows[i][from] = g
                             /\ mapping_file.rows[i][to] = m[g]

\* C5: in a match query with valid arguments the Adaptive-to-IMGT mapping
\* is built exactly when the engine is TRB and the format IMGT, the
\* IMGT-to-Adaptive mapping exactly when the engine is TRA and the format
\* Adaptive; when one is built (and the build succeeds) the working table is
\* rewritten through it, and otherwise nothing is built and the working
\* table is the table as loaded.
C5_ConversionCondition ==
    ArgumentsValid =>
    LET a2i == "build_adaptive_to_imgt" \in Elems(ret.trace)
        i2a == "build_imgt_to_adaptive" \in Elems(ret.trace)
        replaced == "replace" \in Elems(ret.trace)
    IN /\ a2i <=> (DATA_TYPE = "TRB" /\ call.format = "IMGT")
       /\ i2a <=> (DATA_TYPE = "TRA" /\ call.format = "Adaptive")
       /\ replaced <=> ((a2i \/ i2a) /\ NoBuildFailed)
       /\ (a2i /\ replaced) => MapsColumn(ret.mapping, "adaptive", "imgt")
       /\ (i2a /\ replaced) => MapsColumn(ret.mapping, "imgt", "adaptive")
       /\ ~(a2i \/ i2a) => ret.mapping = EmptyDict /\ ret.work = database

\* A TRA engine asked in the Adaptive format: the IMGT-to-Adaptive mapping
\* was built and changed the table.
C5_Witness ==
    /\ ArgumentsValid
    /\ DATA_TYPE = "TRA"
    /\ call.format = "Adaptive"
    /\ "build_imgt_to_adaptive" \in Elems(ret.trace)
    /\ ret.work # database

\* C10: in a single match with a supported format, a V gene on no record of
\* the working table fails the query with a LookupError naming the V gene
\* and the format; otherwise a J gene on no record fails it with a
\* LookupError naming the J gene and the format; no rows are returned, and a
\* gene is only ever reported missing when it is on no record.
C10_GeneValidation ==
    (/\ Answered("single_match")
     /\ ConventionValid
     /\ NoBuildFailed)
    =>
    /\ call.v_gene \notin WorkGenes("v_gene") =>
         /\ ret.status = "error"
         /\ ret.site = "v_gene"
         /\ ret.info = <<"V-gene", call.v_gene, call.format>>
    /\ (call.v_gene \in WorkGenes("v_gene")
          /\ call.j_gene \notin WorkGenes("j_gene")) =>
         /\ ret.status = "error"
         /\ ret.site = "j_gene"
         /\ ret.info = <<"J-gene", call.j_gene, call.format>>
    /\ ret.site = "v_gene" => call.v_gene \notin WorkGenes("v_gene")
    /\ ret.site = "j_gene" => call.j_gene \notin WorkGenes("j_gene")
    /\ ret.site \in {"v_gene", "j_gene"} =>
         ErrorKind(ret) = "LookupError" /\ ret.rows = <<>>

\* A V gene that is on the table as loaded but on no record of the converted
\* working table is reported missing.
C10_Witness ==
    /\ Answered("single_match")
    /\ ret.site = "v_gene"
    /\ ret.work # database
    /\ \E i \in 1..Len(database) : database[i].v_gene = call.v_gene

----------------------------------------------------------------------------
(* Properties of the gene-name mappings.                                   *)

\* The human rows of the reference file.
HumanRowSet ==
    {i \in 1..Len(mapping_file.rows) :
        mapping_file.rows[i].species = "human"}

\* Converting the IMGT name g to Adaptive with the mapping just built, and
\* back with the mapping adaptive_to_imgt_builder builds from the same
\* file, gives g.
RoundTrips(g) ==
    LET back == adaptive_to_imgt_builder(mapping_file).map
    IN /\ ret.mapping[g] \in DOMAIN back
       /\ back[ret.mapping[g]] = g

\* The Adaptive name of the IMGT name g is, on the human rows, the name of
\* no other IMGT name.
AdaptiveNameUnshared(g) ==
    \A i \in HumanRowSet :
        mapping_file.rows[i].adaptive = ret.mapping[g]
            => mapping_file.rows[i].imgt = g

\* C6 as stated: for every reference file, every gene name of the
\* IMGT-to-Adaptive mapping converts to Adaptive and back to itself.
C6_RoundTrip ==
    (Answered("imgt_to_adaptive_builder") /\ ret.status = "ok")
    => \A g \in DOMAIN ret.mapping : RoundTrips(g)

\* C6 as amended: every gene name of the IMGT-to-Adaptive mapping whose
\* Adaptive name belongs to no other IMGT name among the human rows of the
\* reference file converts to Adaptive and back to itself.
C6_RoundTripUnshared ==
    (Answered("imgt_to_adaptive_builder") /\ ret.status = "ok")
    => \A g \in DOMAIN ret.mapping : AdaptiveNameUnshared(g) => RoundTrips(g)

\* A mapping of two IMGT names with Adaptive names of their own, built from
\* a file in which a mouse row gives one of those Adaptive names to the
\* other IMGT name.
C6_Witness ==
    /\ Answered("imgt_to_adaptive_builder")
    /\ ret.status = "ok"
    /\ Cardinality(DOMAIN ret.mapping) = 2
    /\ \A g \in DOMAIN ret.mapping : AdaptiveNameUnshared(g)
    /\ \E i \in 1..Len(mapping_file.rows) :
         /\ mapping_file.rows[i].species = "mouse"
         /\ mapping_file.rows[i].imgt \in DOMAIN ret.mapping
         /\ mapping_file.rows[i].adaptive
              # ret.mapping[mapping_file.rows[i].imgt]
         /\ \E g \in DOMAIN ret.mapping :
              ret.mapping[g] = mapping_file.rows[i].adaptive

----------------------------------------------------------------------------
(* Properties of the argument checks of the match queries.                 *)

\* The steps of a match query that build a mapping, copy or rewrite the
\* table, look a gene up or compare records.
WorkSteps ==
    {"copy_table", "build_adaptive_to_imgt", "build_imgt_to_adaptive",
     "replace", "check_v_gene", "check_j_gene", "select_candidates",
     "cross_merge", "gene_filter", "advisory", "distance", "filter"}

\* C11: a single or a bulk match whose format is neither 'IMGT' nor
\* 'Adaptive' fails with a FormatError naming the format, whatever the table,
\* the reference file and the other arguments are; the format check is the
\* only step taken: no table copy, no mapping, no rewrite, no gene lookup.
C11_UnsupportedConvention ==
    ((Answered("single_match") \/ Answered("bulk_match")) /\ ~ConventionValid)
    =>
    /\ ret.status = "error"
    /\ ret.exc = "ValueError"
    /\ ErrorKind(ret) = "FormatError"
    /\ ret.site = "convention"
    /\ ret.info = <<call.format>>
    /\ ret.rows = <<>>
    /\ ret.trace = <<"format_check">>
    /\ Elems(ret.trace) \cap WorkSteps = {}
    /\ ret.work = <<>>
    /\ ret.mapping = EmptyDict

\* A bulk match in an unsupported format whose query table also lacks a
\* column, on a TRB engine without a reference file: the format is what is
\* reported.
C11_Witness ==
    /\ Answered("bulk_match")
    /\ call.format = "imgt"
    /\ ~QueryColumnsPresent
    /\ mapping_file = MissingFile
    /\ DATA_TYPE = "TRB"
    /\ database # <<>>
    /\ ret.site = "convention"

\* Some record of the table t carries the V and J gene of some query
\* record.
SharesGenePair(t) ==
    \E i \in 1..Len(t) : \E q \in 1..Len(call.query_clonotypes.rows) :
        /\ t[i].v_gene = call.query_clonotypes.rows[q].v_gene
        /\ t[i].j_gene = call.query_clonotypes.rows[q].j_gene

\* No gene name of the query records is on any record of the table t.
QueryGenesAbsent(t) ==
    \A i \in 1..Len(t) : \A q \in 1..Len(call.query_clonotypes.rows) :
        {t[i].v_gene, t[i].j_gene}
          \cap {call.query_clonotypes.rows[q].v_gene,
                call.query_clonotypes.rows[q].j_gene} = {}

\* C12: a bulk match with a supported format and the three query columns,
\* whose mapping (if one is needed) could be built, returns without error;
\* when no record of the working table shares its V and J gene with a query
\* record the result is empty and the advisory message is printed, and the
\* message is printed in no other case.  So it is when the query genes are
\* on no record at all, of the working table or of the table as loaded.
C12_NoGeneMatchIsNoError ==
    (/\ Answered("bulk_match")
     /\ ConventionValid
     /\ QueryColumnsPresent
     /\ NoBuildFailed)
    =>
    /\ ret.status = "ok"
    /\ ret.exc = "none"
    /\ ~SharesGenePair(ret.work) => ret.rows = <<>>
    /\ ~SharesGenePair(ret.work) <=> "advisory" \in Elems(ret.trace)
    /\ (QueryGenesAbsent(ret.work) /\ QueryGenesAbsent(database)) =>
         ret.rows = <<>> /\ "advisory" \in Elems(ret.trace)

\* A bulk match of two query records against two records of a table, in
\* which a query record has the V gene of a working-table record and the
\* CDR3 of it, but not its J gene: empty result, advisory, no error.
C12_Witness ==
    /\ Answered("bulk_match")
    /\ ret.status = "ok"
    /\ ret.rows = <<>>
    /\ "advisory" \in Elems(ret.trace)
    /\ Len(ret.work) = 2
    /\ Len(call.query_clonotypes.rows) = 2
    /\ \E i \in 1..Len(ret.work) : \E q \in 1..Len(call.query_clonotypes.rows) :
         /\ ret.work[i].v_gene = call.query_clonotypes.rows[q].v_gene
         /\ ret.work[i].j_gene # call.query_clonotypes.rows[q].j_gene
         /\ ret.work[i].CDR3 = call.query_clonotypes.rows[q].CDR3

\* A bulk match whose query genes are on no record of the table.
C12_WitnessAbsent ==
    /\ Answered("bulk_match")
    /\ ret.status = "ok"
    /\ database # <<>>
    /\ call.query_clonotypes.rows # <<>>
    /\ QueryGenesAbsent(ret.work)
    /\ QueryGenesAbsent(database)

\* C13: a bulk match in a supported format whose query table lacks one of
\* the columns v_gene, j_gene, CDR3 fails with a SchemaError; the format
\* check and the column check are the only steps taken: the table is not
\* copied, no mapping is built (so a missing reference file goes unnoticed)
\* and no cross product is formed.
C13_MissingQueryColumns ==
    (Answered("bulk_match") /\ ConventionValid /\ ~QueryColumnsPresent)
    =>
    /\ ret.status = "error"
    /\ ret.exc = "ValueError"
    /\ ErrorKind(ret) = "SchemaError"
    /\ ret.site = "query_columns"
    /\ ret.rows = <<>>
    /\ ret.trace = <<"format_check", "columns_check">>
    /\ Elems(ret.trace) \cap WorkSteps = {}
    /\ ret.work = <<>>
    /\ ret.mapping = EmptyDict

\* A bulk match without the CDR3 column on a TRA engine asked in the
\* Adaptive format, whose reference file is missing: the missing column is
\* what is reported.
C13_Witness ==
    /\ Answered("bulk_match")
    /\ call.format = "Adaptive"
    /\ DATA_TYPE = "TRA"
    /\ mapping_file = MissingFile
    /\ database # <<>>
    /\ call.query_clonotypes.columns = {"v_gene", "j_gene"}
    /\ ret.site = "query_columns"

----------------------------------------------------------------------------
(* Properties of a session of queries.                                     *)

\* C14: at every point of a session of allele lookups, single matches and
\* bulk matches, whether they returned or raised and whether or not their
\* working table was rewritten, the table of the engine is the table it
\* loaded, the query in the hands of the caller (its query records with it)
\* is the query as it was issued, and self has the attributes __init__ gave
\* it and no other: no working table is kept on the engine.
C14_QueriesLeaveEngineAlone ==
    /\ database = history.loaded
    /\ call = history.issued
    /\ attributes = InstanceAttributes

\* The third query of a session answered, after a single match that rewrote
\* its working table and returned, and a bulk match that raised on a
\* non-empty query table.
C14_Witness ==
    /\ ret.status # "none"
    /\ Len(history.answered) >= 2
    /\ \E i \in 1..Len(history.answered) :
         /\ history.answered[i].op = "single_match"
         /\ history.answered[i].status = "ok"
         /\ history.answered[i].rewritten
    /\ \E i \in 1..Len(history.answered) :
         /\ history.answered[i].op = "bulk_match"
         /\ history.answered[i].status = "error"
    /\ call.op = "bulk_match"
    /\ call.query_clonotypes.rows # <<>>
    /\ ret.status = "ok"
    /\ ret.work # database

----------------------------------------------------------------------------
(* Properties of the converted working table.                              *)

\* The name g as the mapping of the answered query rewrites it: what the
\* mapping holds for g when g is a key, g itself otherwise.
Rewritten(g) == IF g \in DOMAIN ret.mapping THEN ret.mapping[g] ELSE g

\* C15: the working table of a match query that converted has as many
\* records as the table, in the same order; on every record loci,
\* allele_name and CDR3 are those of the table, and the V gene and the J gene
\* are each what the mapping holds for the table's name when that name is a
\* key of the mapping, and the table's name otherwise.  The mapping is
\* applied once: a name it yields is not rewritten again, even when that
\* name is itself a key.
C15_ConvertedTable ==
    (ArgumentsValid /\ "replace" \in Elems(ret.trace))
    =>
    /\ Len(ret.work) = Len(database)
    /\ \A i \in 1..Len(database) :
         /\ DOMAIN ret.work[i] = DOMAIN database[i]
         /\ ret.work[i].loci = database[i].loci
         /\ ret.work[i].allele_name = database[i].allele_name
         /\ ret.work[i].CDR3 = database[i].CDR3
         /\ ret.work[i].v_gene = Rewritten(database[i].v_gene)
         /\ ret.work[i].j_gene = Rewritten(database[i].j_gene)

\* A conversion of two records through a mapping that yields, for the J gene
\* of one record, a name that is a key itself, and that has no entry for the
\* genes of the other record.
C15_Witness ==
    /\ ArgumentsValid
    /\ "replace" \in Elems(ret.trace)
    /\ Len(database) = 2
    /\ database[1].CDR3 # database[2].CDR3
    /\ \E i \in 1..2 :
         /\ database[i].j_gene \in DOMAIN ret.mapping
         /\ ret.mapping[database[i].j_gene] \in DOMAIN ret.mapping
         /\ ret.work[i].j_gene = ret.mapping[database[i].j_gene]
    /\ \E i \in 1..2 :
         /\ {database[i].v_gene, database[i].j_gene}
               \cap DOMAIN ret.mapping = {}
         /\ ret.work[i] = database[i]

----------------------------------------------------------------------------
(* Properties of the distance.                                             *)

\* The strings one insertion, one deletion or one substitution of a single
\* character away from s.
OneEdit(s) ==
    {[i \in 1..(Len(s) + 1) |->
         IF i < p THEN s[i] ELSE IF i = p THEN c ELSE s[i - 1]] :
       p \in 1..(Len(s) + 1), c \in AminoAcids}
    \cup {[i \in 1..(Len(s) - 1) |-> IF i < p THEN s[i] ELSE s[i + 1]] :
            p \in 1..Len(s)}
    \cup {[s EXCEPT ![p] = c] : p \in 1..Len(s), c \in AminoAcids}

\* The least number of single-character edits that lead from a string of
\* the set reached to b: n when b is in reached, else one more than from
\* the strings one edit further on.  No string on a shortest way is longer
\* than the longer of the two ends by more than one character.
RECURSIVE EditsFrom(_, _, _, _)
EditsFrom(reached, b, n, longest) ==
    IF b \in reached THEN n
    ELSE EditsFrom(reached \cup {t \in UNION {OneEdit(s) : s \in reached} :
                                    Len(t) <= longest},
                   b, n + 1, longest)

EditDistance(a, b) ==
    EditsFrom({a}, b, 0, (IF Len(a) >= Len(b) THEN Len(a) ELSE Len(b)) + 1)

\* C16: the distance a match query computes between the CDR3 of a record
\* and the query CDR3 is the least number of insertions, deletions and
\* substitutions of one character that turn the one into the other; it is
\* not negative, it is 0 exactly when the two are equal, it is the same in
\* both directions, and the record is kept exactly when it is at most
\* num_mismatches.
C16_ClassicEditDistance ==
    Answered("distance") =>
    LET a == call.CDR3
        b == call.CDR3_amino_acids
        d == ret.work[1].distance
    IN /\ d = EditDistance(a, b)
       /\ d >= 0
       /\ d = 0 <=> a = b
       /\ d = Levenshtein(b, a)
       /\ ret.rows # <<>> <=> EditDistance(a, b) <= call.num_mismatches
       /\ ret.rows # <<>> => ret.rows = ret.work

\* Two CDR3s of different lengths that one deletion turns into each other
\* although they differ at every position: distance one, kept at threshold
\* one.
C16_Witness ==
    /\ Answered("distance")
    /\ Len(call.CDR3) = Len(call.CDR3_amino_acids) + 1
    /\ Len(call.CDR3_amino_acids) >= 1
    /\ \A i \in 1..Len(call.CDR3_amino_acids) :
         call.CDR3[i] # call.CDR3_amino_acids[i]
    /\ ret.work[1].distance = 1
    /\ call.num_mismatches = 1
    /\ ret.rows # <<>>

----------------------------------------------------------------------------
(* Properties of the threshold.                                            *)

\* C17: a single match with num_mismatches = 0 that returns, returns only
\* records whose CDR3 is the query CDR3 character for character and whose V
\* gene and J gene are the query's; it returns every such record of the
\* working table, each at distance 0.
C17_ExactMatchAtZero ==
    (Answered("single_match") /\ call.num_mismatches = 0
       /\ ret.status = "ok")
    =>
    /\ \A k \in 1..Len(ret.rows) :
         /\ ret.rows[k].CDR3 = call.CDR3_amino_acids
         /\ ret.rows[k].v_gene = call.v_gene
         /\ ret.rows[k].j_gene = call.j_gene
         /\ ret.rows[k].distance = 0
    /\ {ret.rows[k].idx + 1 : k \in 1..Len(ret.rows)}
         = {i \in 1..Len(ret.work) :
               /\ ret.work[i].CDR3 = call.CDR3_amino_acids
               /\ ret.work[i].v_gene = call.v_gene
               /\ ret.work[i].j_gene = call.j_gene}

\* An exact match against two records with the query genes, of which the
\* second has the query CDR3 and the first a CDR3 one substitution away:
\* the second alone is returned.
C17_Witness ==
    /\ Answered("single_match")
    /\ call.num_mismatches = 0
    /\ ret.status = "ok"
    /\ Len(ret.work) = 2
    /\ \A i \in 1..2 : /\ ret.work[i].v_gene = call.v_gene
                       /\ ret.work[i].j_gene = call.j_gene
    /\ Levenshtein(ret.work[1].CDR3, call.CDR3_amino_acids) = 1
    /\ Len(ret.rows) = 1
    /\ ret.rows[1].idx = 1

\* The answered bulk match asked again with the threshold k.
BulkMatchAt(k) ==
    bulk_match(database, DATA_TYPE, mapping_file, call.query_clonotypes,
               call.format, k)

\* Every row of r1 is a row of r2, as often and in the same order.
SubCollection(r1, r2) ==
    SelectSeq(r2, LAMBDA r : r \in Elems(r1)) = r1

\* C18: for a table, a query table and a format, the rows a bulk match
\* returns at a threshold are among the rows it returns at any larger
\* threshold, as often and in the same order, so that it returns no more
\* rows at the smaller threshold; and it raises at the one exactly when it
\* raises at the other.
C18_MonotoneInThreshold ==
    Answered("bulk_match") =>
    \A k2 \in call.num_mismatches..(MaxMismatches + 1) :
        LET larger == BulkMatchAt(k2)
        IN /\ larger.status = ret.status
           /\ SubCollection(ret.rows, larger.rows)
           /\ Len(ret.rows) <= Len(larger.rows)

\* A bulk match at threshold 0 that returns a row, and returns more rows at
\* threshold 1.
C18_Witness ==
    /\ Answered("bulk_match")
    /\ call.num_mismatches = 0
    /\ ret.rows # <<>>
    /\ Len(BulkMatchAt(1).rows) > Len(ret.rows)
    /\ BulkMatchAt(1).rows[1] \notin Elems(ret.rows)

----------------------------------------------------------------------------
(* Properties of the mapping builders.                                     *)

C19_WitnessColumns ==
    /\ Answered("adaptive_to_imgt_builder")
    /\ mapping_file.exists
    /\ mapping_file.columns = {"species", "adaptive"}
    /\ ret.site = "mapping_columns"

\* The answered match query asked of the table as loaded, with no working
\* table made of it.
Unconverted ==
    IF call.op = "single_match"
    THEN match_in_work(database, call.v_gene, call.j_gene, call.format,
                       call.CDR3_amino_acids, call.num_mismatches)
    ELSE cross_reference(database, call.query_clonotypes.rows,
                         call.num_mismatches)

\* C20: a mapping is made of the human rows of the reference file and of no
\* other row: its keys are the names those rows hold in the column converted
\* from, and each key is mapped to a name a human row holds next to it.
\* From a file with no human row a builder returns the empty mapping and
\* raises nothing; a match query that converts through the empty mapping
\* works on a table equal to the table as loaded, and returns or raises
\* what it returns or raises when asked of the table as loaded.
C20_HumanRowsOnly ==
    /\ (Answered("imgt_to_adaptive_builder") /\ ret.status = "ok") =>
         MapsColumn(ret.mapping, "imgt", "adaptive")
    /\ (Answered("adaptive_to_imgt_builder") /\ ret.status = "ok") =>
         MapsColumn(ret.mapping, "adaptive", "imgt")
    /\ ((Answered("imgt_to_adaptive_builder")
           \/ Answered("adaptive_to_imgt_builder"))
         /\ mapping_file.exists
         /\ RequiredMapColumns \subseteq mapping_file.columns
         /\ HumanRowSet = {})
        => ret.status = "ok" /\ ret.mapping = EmptyDict
    /\ ((Answered("single_match") \/ Answered("bulk_match"))
         /\ "replace" \in Elems(ret.trace)
         /\ HumanRowSet = {})
        =>
        /\ ret.mapping = EmptyDict
        /\ ret.work = database
        /\ ret.status = Unconverted.status
        /\ ret.exc = Unconverted.exc
        /\ ret.site = Unconverted.site
        /\ ret.info = Unconverted.info
        /\ ret.rows = Unconverted.rows

\* A single match on a TRA engine in the Adaptive format, whose reference
\* file holds mouse rows only, one of them for the V gene of a record: the
\* record keeps its IMGT names and is returned for a query in those names.
C20_Witness ==
    /\ Answered("single_match")
    /\ "build_imgt_to_adaptive" \in Elems(ret.trace)
    /\ "replace" \in Elems(ret.trace)
    /\ mapping_file.rows # <<>>
    /\ HumanRowSet = {}
    /\ \E i \in 1..Len(mapping_file.rows) :
         /\ database # <<>>
         /\ mapping_file.rows[i].imgt = database[1].v_gene
    /\ ret.status = "ok"
    /\ ret.rows # <<>>

\* A builder called on a file of mouse rows.
C20_WitnessBuilder ==
    /\ Answered("adaptive_to_imgt_builder")
    /\ Len(mapping_file.rows) >= 2
    /\ HumanRowSet = {}
    /\ ret.status = "ok"
    /\ ret.mapping = EmptyDict

----------------------------------------------------------------------------
(* Properties of construction.                                             *)

\* The file construction reads for the chain it was asked for.
ChainFile == call.database_dir[call.database_name]

C21_WitnessColumns ==
    /\ Answered("construct")
    /\ call.database_name \in {"TRA", "TRB"}
    /\ ChainFile.exists
    /\ ChainFile.columns = RecordColumns \ {"CDR3"}
    /\ ChainFile.rows # <<>>
    /\ ret.site = "database_columns"

----------------------------------------------------------------------------
(* Properties of queries in a session: no state across calls.              *)

\* The answered query issued first on an engine just constructed from the
\* same files.
FreshOutcome ==
    CASE call.op = "allele_lookup" ->
           allele_lookup(history.loaded, call.allele_name)
      [] call.op = "single_match" ->
           single_match(history.loaded, DATA_TYPE, mapping_file, call.v_gene,
                        call.j_gene, call.format, call.CDR3_amino_acids,
                        call.num_mismatches)
      [] call.op = "bulk_match" ->
           bulk_match(history.loaded, DATA_TYPE, mapping_file,
                      history.issued.query_clonotypes, call.format,
                      call.num_mismatches)

\* C22: whatever queries an engine has answered before, the answer to a
\* query (its rows or its error, with the steps taken) is the answer the
\* query gets when it is the first one on a freshly constructed engine; and
\* a query issued again right after it was answered gets an equal answer.
C22_NoStateAcrossCalls ==
    (ret.status # "none"
       /\ call.op \in {"allele_lookup", "single_match", "bulk_match"})
    =>
    /\ ret = FreshOutcome
    /\ history.previous.status # "none" => ret = history.previous

\* The third query of a session, a converting single match that returns a
\* row, issued right after the same query was answered, the first query
\* having been another one that raised.
C22_Witness ==
    /\ call.op = "single_match"
    /\ ret.status = "ok"
    /\ ret.rows # <<>>
    /\ ret.work # database
    /\ history.previous.status = "ok"
    /\ Len(history.answered) >= 2
    /\ history.answered[1].status = "error"
    /\ history.answered[1].op # "single_match"

----------------------------------------------------------------------------
(* Properties of the order of the steps of a match query.                  *)

\* The steps that check the arguments or build a mapping, and the steps
\* that form the cross product or compute distances.
ValidationSteps ==
    {"format_check", "columns_check", "build_adaptive_to_imgt",
     "build_imgt_to_adaptive", "check_v_gene", "check_j_gene"}
ComparisonSteps == {"cross_merge", "distance"}

\* C23: in a match query every check and every mapping build is done
\* before the cross product is formed and before a distance is computed.
\* A single match that returns has checked the format, the V gene and the J
\* gene, a bulk match that returns has checked the format and the query
\* columns, and either has built the mapping its conversion needs; a match
\* query that raises has formed no cross product and computed no distance,
\* and returns no row.
C23_ValidationBeforeDistance ==
    (Answered("single_match") \/ Answered("bulk_match"))
    =>
    /\ \A i \in 1..Len(ret.trace) : \A j \in 1..Len(ret.trace) :
         (ret.trace[i] \in ComparisonSteps
            /\ ret.trace[j] \in ValidationSteps) => j < i
    /\ (ret.status = "ok" /\ call.op = "single_match") =>
         {"format_check", "check_v_gene", "check_j_gene", "distance"}
            \subseteq Elems(ret.trace)
    /\ (ret.status = "ok" /\ call.op = "bulk_match") =>
         {"format_check", "columns_check", "cross_merge", "distance"}
            \subseteq Elems(ret.trace)
    /\ (ret.status = "ok" /\ DATA_TYPE = "TRB" /\ call.format = "IMGT") =>
         "build_adaptive_to_imgt" \in Elems(ret.trace)
    /\ (ret.status = "ok" /\ DATA_TYPE = "TRA"
          /\ call.format = "Adaptive") =>
         "build_imgt_to_adaptive" \in Elems(ret.trace)
    /\ ret.status = "error" =>
         /\ Elems(ret.trace) \cap ComparisonSteps = {}
         /\ ret.rows = <<>>

\* A single match whose V gene is on a record of the converted working
\* table and whose J gene is on none, the table holding a record with the
\* query CDR3: the J gene is reported and no distance was computed.
C23_Witness ==
    /\ Answered("single_match")
    /\ ret.site = "j_gene"
    /\ "replace" \in Elems(ret.trace)
    /\ \E i \in 1..Len(ret.work) :
         /\ ret.work[i].v_gene = call.v_gene
         /\ ret.work[i].CDR3 = call.CDR3_amino_acids
    /\ "distance" \notin Elems(ret.trace)

----------------------------------------------------------------------------
(* Properties relating the bulk match to other strategies.                 *)

\* The indexed strategy: the working-table positions grouped under their
\* (v_gene, j_gene) key, and each query record compared with the group of
\* its own key only.
GroupOf(key) ==
    {i \in 1..Len(ret.work) :
        <<ret.work[i].v_gene, ret.work[i].j_gene>> = key}

IndexedMatch ==
    UNION {
      {[table |-> i, query |-> q,
        distance |-> Levenshtein(ret.work[i].CDR3,
                                 call.query_clonotypes.rows[q].CDR3)] :
          i \in {g \in GroupOf(<<call.query_clonotypes.rows[q].v_gene,
                                  call.query_clonotypes.rows[q].j_gene>>) :
                    Levenshtein(ret.work[g].CDR3,
                                call.query_clonotypes.rows[q].CDR3)
                      <= call.num_mismatches}} :
      q \in 1..Len(call.query_clonotypes.rows)}

\* The rows of the answered bulk match by the table position and the query
\* position they stand for.
BulkPairs ==
    {[table |-> PairOf(ret.rows[k].idx)[1],
      query |-> PairOf(ret.rows[k].idx)[2],
      distance |-> ret.rows[k].distance] : k \in 1..Len(ret.rows)}

\* The rows the bulk match returned for the query record at position q, as
\* rows of the table: table index, record fields, distance.
BulkRowsFor(q) ==
    LET mine == SelectSeq(ret.rows, LAMBDA r : PairOf(r.idx)[2] = q)
    IN [k \in 1..Len(mine) |->
          [idx |-> PairOf(mine[k].idx)[1] - 1, loci |-> mine[k].loci,
           allele_name |-> mine[k].allele_name,
           v_gene |-> mine[k].DB_v_gene, j_gene |-> mine[k].DB_j_gene,
           CDR3 |-> mine[k].DB_CDR3, distance |-> mine[k].distance]]

\* The single match of the query record at position q on the same engine.
SingleMatchFor(q) ==
    single_match(database, DATA_TYPE, mapping_file,
                 call.query_clonotypes.rows[q].v_gene,
                 call.query_clonotypes.rows[q].j_gene, call.format,
                 call.query_clonotypes.rows[q].CDR3, call.num_mismatches)

\* C24: a bulk match that returns, returns one row for each pair the
\* indexed strategy finds and no other, with the same distance, each pair
\* once; and for every query record whose V gene and J gene are each on a
\* record of the working table, the rows returned for that record are, in
\* order and field for field, the rows the single match of its genes, its
\* CDR3, the same format and the same threshold returns.
C24_BulkEqualsIndexed ==
    (Answered("bulk_match") /\ ret.status = "ok")
    =>
    /\ BulkPairs = IndexedMatch
    /\ Cardinality(BulkPairs) = Len(ret.rows)
    /\ \A q \in 1..Len(call.query_clonotypes.rows) :
         (/\ call.query_clonotypes.rows[q].v_gene \in WorkGenes("v_gene")
          /\ call.query_clonotypes.rows[q].j_gene \in WorkGenes("j_gene"))
         =>
         /\ SingleMatchFor(q).status = "ok"
         /\ SingleMatchFor(q).rows = BulkRowsFor(q)

\* A bulk match of two query records of different genes against a
\* converted table of two records of one gene pair: two rows for one query
\* record, none for the other.
C24_Witness ==
    /\ Answered("bulk_match")
    /\ ret.status = "ok"
    /\ ret.work # database
    /\ Len(ret.work) = 2
    /\ Len(call.query_clonotypes.rows) = 2
    /\ call.query_clonotypes.rows[1].v_gene
         # call.query_clonotypes.rows[2].v_gene
    /\ Len(ret.rows) = 2
    /\ \E q \in 1..2 : Len(BulkRowsFor(q)) = 2
    /\ ret.rows[1].distance # ret.rows[2].distance

----------------------------------------------------------------------------
(* Properties of the lifecycle of the mappings in a session.               *)

\* The builds of a direction over the session so far, the query just
\* answered included.
SessionBuilds(dir) ==
    LET RECURSIVE Sum(_)
        Sum(n) == IF n = 0 THEN 0
                  ELSE history.answered[n].builds[dir] + Sum(n - 1)
    IN Sum(Len(history.answered)) + builds(ret.trace, dir)

\* The builder of a direction on the reference file of the engine.
BuilderOf(dir) ==
    IF dir = "build_adaptive_to_imgt"
    THEN adaptive_to_imgt_builder(mapping_file)
    ELSE imgt_to_adaptive_builder(mapping_file)

\* Whether the query being answered needs the direction.
NeedsDirection(dir) ==
    /\ call.op \in {"single_match", "bulk_match"}
    /\ IF dir = "build_adaptive_to_imgt"
       THEN needs_adaptive_to_imgt(DATA_TYPE, call.format)
       ELSE needs_imgt_to_adaptive(DATA_TYPE, call.format)

\* C25 as stated: over the queries of a session on one engine, the mapping
\* of a direction is built at most once.
C25_BuiltOnce ==
    \A dir \in Directions : SessionBuilds(dir) <= 1

\* C25 amended: every answered query that needs a direction and has copied
\* the table builds the mapping of that direction from the reference file,
\* once, whatever was built before in the session, and a query that does
\* not need it builds none; the mapping it applies is the one the builder
\* returns on the reference file; no mapping is kept on the engine.
C25_BuiltByEveryQuery ==
    ret.status # "none"
    =>
    /\ attributes = InstanceAttributes
    /\ \A dir \in Directions :
         /\ builds(ret.trace, dir)
              = IF NeedsDirection(dir) /\ IsIn("copy_table", ret.trace)
                   /\ BuilderOf(dir).ok
                THEN 1 ELSE 0
         /\ builds(ret.trace, dir) = 1
              => ret.mapping = BuilderOf(dir).map

\* The third query of a session builds the mapping of a direction that the
\* two queries before it have each built.
C25_Witness ==
    /\ ret.status = "ok"
    /\ Len(history.answered) = 2
    /\ \E dir \in Directions :
         /\ history.answered[1].builds[dir] = 1
         /\ history.answered[2].builds[dir] = 1
         /\ builds(ret.trace, dir) = 1
         /\ SessionBuilds(dir) = 3

----------------------------------------------------------------------------
(* Properties of the records of a constructed engine.                      *)

\* A required field of a record that holds a null.
NullCell(row, c) ==
    IF c \in {"v_gene", "j_gene"} THEN row[c] = None ELSE row[c] = <<None>>

\* C26: an engine is constructed only from a source whose every record
\* holds a value, not a null, in each of the five required fields.
C26_NonNullOnLoad ==
    (Answered("construct") /\ ret.status = "ok")
    =>
    \A i \in 1..Len(database) :
       \A c \in RequiredTableColumns : ~NullCell(database[i], c)

----------------------------------------------------------------------------
(* Properties of queries running concurrently on one engine.               *)

\* The answer the query of a thread gets when it runs alone on the engine
\* as loaded.
Alone(t) ==
    IF threads[t].call.op = "single_match"
    THEN single_match(history.loaded, DATA_TYPE, mapping_file,
                      threads[t].call.v_gene, threads[t].call.j_gene,
                      threads[t].call.format,
                      threads[t].call.CDR3_amino_acids,
                      threads[t].call.num_mismatches)
    ELSE bulk_match(history.loaded, DATA_TYPE, mapping_file,
                    threads[t].call.query_clonotypes,
                    threads[t].call.format, threads[t].call.num_mismatches)

\* C27: with the statements of the threads' queries interleaved in any
\* order and no lock taken, the engine's table is at every moment the table
\* as loaded; every thread that has returned or raised has the answer its
\* query gets when run alone (rows or error, steps, working table, mapping);
\* and a thread about to match holds the working table and the mapping of
\* its own query, whatever the other threads have done to theirs.
C27_ConcurrentQueriesSafe ==
    threads # <<>>
    =>
    /\ database = history.loaded
    /\ \A t \in DOMAIN threads :
         /\ threads[t].pc = "done" => threads[t].ret = Alone(t)
         /\ threads[t].pc = "match" =>
              /\ threads[t].work = Alone(t).work
              /\ threads[t].mapping = Alone(t).mapping
         /\ threads[t].pc \in {"build", "replace_v"} =>
              threads[t].work = history.loaded

\* A thread has returned a row matched on the table's own names while
\* another thread, half way through its conversion, has assigned the
\* v_gene column of its working table and not yet the j_gene column.
C27_Witness ==
    /\ threads # <<>>
    /\ \E t, u \in DOMAIN threads :
         /\ t # u
         /\ threads[t].pc = "done"
         /\ threads[t].ret.status = "ok"
         /\ threads[t].ret.rows # <<>>
         /\ threads[t].ret.work = database
         /\ threads[u].pc = "replace_j"
         /\ threads[u].work # database
         /\ threads[u].call.op # threads[t].call.op

====
